---- MODULE Spec2Model ----
(***************************************************************************)
(* A model of abbs-meta (abbsmeta.py): the package spec model (Package,    *)
(* PackageGroup), the tree scanner (list_update, LocalRepo.scan_abbs_tree) *)
(* and the metadata reconciler (update_package, SourceRepo.scan_abbs_tree, *)
(* repo_update, update/close) over the catalog tables and the marks store. *)
(***************************************************************************)
EXTENDS Integers, Sequences, FiniteSets, TLC

VARIABLES
    revs,    \* the revision history visible to the source tree (fossil event/mlink, marks.branches)
    ldir,    \* the directory of the local tree: location -> [content, mtime]
    db,      \* the catalog as the open connection sees it (uncommitted writes included)
    dbd,     \* the catalog as committed (what survives the process)
    rel,     \* marks store (package_rel) as the open connection sees it
    reld,    \* marks store as committed
    basherr, \* marks store (package_basherr) as the open connection sees it
    basherrd,\* package_basherr as committed
    run,     \* the running update(): position, work list, current revision
    log,     \* log lines emitted by the pass in progress / last finished
    obs,     \* observations kept for the properties (snapshots, what the last step did)
    call     \* one application of a library function: [fn, its arguments, ret]

vars == <<revs, ldir, db, dbd, rel, reld, basherr, basherrd, run, log, obs, call>>

(***************************************************************************)
(* Bounds                                                                  *)
(***************************************************************************)
MaxRev == 3
MaxRuns == 3
MaxEdits == 3
MaxDepLen == 4
MaxDepLen2 == 2
MaxValLen == 4
MaxPatLen == 3
MaxLines == 3

(***************************************************************************)
(* Values                                                                  *)
(***************************************************************************)
Null == "NULL"

SrcTree == "src"
LocTree == "loc"
\* SourceRepo.branches in order, SourceRepo.mainbranch, LocalRepo.branch
Branches == <<"stable", "testing">>
BranchSet == {Branches[i] : i \in 1..Len(Branches)}
MainBranch == "stable"
LocalBranch == "_local"

\* abbs_categories
abbs_categories == {"core-", "base-", "extra-"}

\* secpath -> (category, section): Package.__init__ lines 47-50
SecPaths == {"extra-a", "extra-b"}
CategoryOf(secpath) ==
    CASE secpath = "extra-a" -> "extra"
      [] secpath = "extra-b" -> "extra"
      [] OTHER -> Null
SectionOf(secpath) ==
    CASE secpath = "extra-a" -> "a"
      [] secpath = "extra-b" -> "b"
      [] OTHER -> secpath

Loc(secpath, directory) == [secpath |-> secpath, directory |-> directory]
LA == Loc("extra-a", "p")
LB == Loc("extra-b", "p")
Locs == {LA, LB}

(***************************************************************************)
(* Ordered mappings (collections.OrderedDict) as sequences of [k, v]       *)
(***************************************************************************)
KV(k, v) == [k |-> k, v |-> v]
Key(b) == [b |-> b, a |-> ""]
KeyA(b, a) == [b |-> b, a |-> a]

DictKeys(d) == [i \in 1..Len(d) |-> d[i].k]
DictHas(d, k) == \E i \in 1..Len(d) : d[i].k = k
DictGet(d, k, default) ==
    IF DictHas(d, k) THEN d[CHOOSE i \in 1..Len(d) : d[i].k = k].v ELSE default
DictSet(d, k, v) ==
    IF DictHas(d, k)
    THEN [i \in 1..Len(d) |-> IF d[i].k = k THEN KV(k, v) ELSE d[i]]
    ELSE Append(d, KV(k, v))
DictDel(d, k) == SelectSeq(d, LAMBDA e : e.k # k)

RECURSIVE DictUpdate(_, _)
DictUpdate(d, other) ==
    IF other = <<>> THEN d
    ELSE DictUpdate(DictSet(d, Head(other).k, Head(other).v), Tail(other))

Range(s) == {s[i] : i \in 1..Len(s)}

\* uniq(seq): order preserving de-duplication
RECURSIVE uniq(_)
uniq(seq) ==
    IF seq = <<>> THEN <<>>
    ELSE LET init == uniq(SubSeq(seq, 1, Len(seq) - 1))
             x == seq[Len(seq)]
         IN IF x \in Range(init) THEN init ELSE Append(init, x)

(***************************************************************************)
(* Package spec model                                                      *)
(***************************************************************************)
Version(v, r, e) == [version |-> v, release |-> r, epoch |-> e]
NoVersion == Version(Null, Null, Null)

\* str.lower() on the architecture suffixes that occur
Lower(s) ==
    CASE s = "ARM64" -> "arm64"
      [] s = "Arm64" -> "arm64"
      [] OTHER -> s

\* Python truthiness of an optional string: None and '' are false
Truthy(s) == s # Null /\ s # ""
Or(a, b) == IF Truthy(a) THEN a ELSE b

relvars == {"PKGDEP", "PKGRECOM", "PKGBREAK", "PKGCONFL", "PKGREP",
            "PKGPROV", "PKGSUG", "BUILDDEP", "PKGDEP_DPKG", "PKGDEP_RPM"}
re_relvars(k) == k.b \in relvars

\* k.rsplit('__', 1) of a key that re_relvars matches: the text before the
\* last '__' and the text after it, on the suffixes that occur ('(__\w+)?'
\* lets the suffix hold '__' itself)
rsplit(k) ==
    CASE k.a = "" -> <<k.b>>
      [] k.a = "ARM__64" -> <<k.b \o "__ARM", "64">>
      [] OTHER -> <<k.b, k.a>>

(* Text that the code takes apart is a sequence of one-character strings;  *)
(* None in a field that otherwise holds such text is NoText.                *)
NoText == <<Null>>
lowercase == {"a", "b", "c", "d", "e", "f", "g", "h", "i", "j", "k", "l", "m",
              "n", "o", "p", "q", "r", "s", "t", "u", "v", "w", "x", "y", "z"}
uppercase == {"A", "B", "C", "D", "E", "F", "G", "H", "I", "J", "K", "L", "M",
              "N", "O", "P", "Q", "R", "S", "T", "U", "V", "W", "X", "Y", "Z"}
nums == {"0", "1", "2", "3", "4", "5", "6", "7", "8", "9"}
whitespace == {" ", "\t", "\n"}

\* str.split(): the maximal runs of non-whitespace characters, in order
RECURSIVE Split(_)
Split(v) ==
    IF v = <<>> THEN <<>>
    ELSE IF Head(v) \in whitespace THEN Split(Tail(v))
    ELSE LET n == CHOOSE i \in 1..Len(v) :
                      /\ \A j \in 1..i : v[j] \notin whitespace
                      /\ (i = Len(v) \/ v[i + 1] \in whitespace)
         IN <<SubSeq(v, 1, n)>> \o Split(SubSeq(v, n + 1, Len(v)))

\* the character classes of re_packagerel
PkgNameFirst == lowercase \cup nums
PkgNameChars == lowercase \cup nums \cup {"+", ".", "-"}
RelOpFirst == {"<", ">", "="}
DepVerChars == nums \cup uppercase \cup lowercase \cup {".", "+", "~", ":", "-"}

\* the text of group 2 of re_packagerel
RelOp(c) == CASE c = "<" -> "<=" [] c = ">" -> ">=" [] OTHER -> "=="

\* re_packagerel.match(tok): <<matched, deppkg, relop, depver>>.  The name
\* group is greedy, then the operator group is tried before it is skipped.
re_packagerel(tok) ==
    LET n == Len(tok)
        NameOk(i) == /\ i >= 1
                     /\ tok[1] \in PkgNameFirst
                     /\ \A j \in 2..i : tok[j] \in PkgNameChars
        OpOk(i) == i + 2 <= n /\ tok[i + 1] \in RelOpFirst /\ tok[i + 2] = "="
        VerOk(i) == \A j \in (i + 1)..n : tok[j] \in DepVerChars
        Ok(i) == NameOk(i) /\ ((OpOk(i) /\ VerOk(i + 2)) \/ VerOk(i))
        lens == {i \in 1..n : Ok(i)}
    IN IF lens = {} THEN <<FALSE, Null, Null, Null>>
       ELSE LET i == CHOOSE k \in lens : \A l \in lens : l <= k
            IN IF OpOk(i) /\ VerOk(i + 2)
               THEN <<TRUE, SubSeq(tok, 1, i), RelOp(tok[i + 1]), SubSeq(tok, i + 3, n)>>
               ELSE <<TRUE, SubSeq(tok, 1, i), Null, SubSeq(tok, i + 1, n)>>

\* defaultdict(lambda: Version(None, None, None)) lookup
MaskOf(m, arch) == IF arch \in DOMAIN m THEN m[arch] ELSE NoVersion
MaskSet(m, arch, v) == [a \in DOMAIN m \cup {arch} |-> IF a = arch THEN v ELSE m[a]]
EmptyMask == [a \in {} |-> NoVersion]

\* PackageGroup.__init__
PackageGroup(tree, secpath, directory) ==
    [name |-> directory, tree |-> tree, secpath |-> secpath,
     category |-> CategoryOf(secpath), section |-> SectionOf(secpath),
     directory |-> directory,
     version |-> Null, release |-> Null, vermask_arch |-> EmptyMask,
     spec |-> <<>>, err_spec |-> Null]

\* one iteration of the key loop of Package.load_spec
LoadSpecKey(g, key) ==
    LET val == DictGet(g.spec, key, Null)
        popped == DictDel(g.spec, key)
        arch == Lower(key.a)
    IN CASE key = Key("VER") -> [g EXCEPT !.version = val, !.spec = popped]
         [] key = Key("REL") -> [g EXCEPT !.release = val, !.spec = popped]
         [] key.b = "VER" /\ key.a # "" ->
              [g EXCEPT !.vermask_arch = MaskSet(@, arch,
                    [MaskOf(@, arch) EXCEPT !.version = val]), !.spec = popped]
         [] key.b = "REL" /\ key.a # "" ->
              [g EXCEPT !.vermask_arch = MaskSet(@, arch,
                    [MaskOf(@, arch) EXCEPT !.release = val]), !.spec = popped]
         [] OTHER -> g

RECURSIVE LoadSpecKeys(_, _)
LoadSpecKeys(g, keys) ==
    IF keys = <<>> THEN g ELSE LoadSpecKeys(LoadSpecKey(g, Head(keys)), Tail(keys))

\* Package.load_spec: result is the evaluated variable mapping of the spec file
load_spec(g, result, err) ==
    LET g1 == [g EXCEPT !.err_spec = err, !.spec = DictUpdate(@, result)]
    IN LoadSpecKeys(g1, DictKeys(g1.spec))

\* one iteration of the first key loop of Package.load_defines
LoadDefinesKey(p, key) ==
    LET val == DictGet(p.spec, key, Null)
        popped == DictDel(p.spec, key)
        arch == Lower(key.a)
    IN CASE key = Key("PKGSEC") -> [p EXCEPT !.pkg_section = val, !.spec = popped]
         [] key = Key("PKGDES") -> [p EXCEPT !.description = val, !.spec = popped]
         [] key = Key("PKGEPOCH") -> [p EXCEPT !.epoch = val, !.spec = popped]
         [] key.b = "PKGEPOCH" /\ key.a # "" ->
              [p EXCEPT !.vermask_arch = MaskSet(@, arch,
                    [MaskOf(@, arch) EXCEPT !.epoch = val]), !.spec = popped]
         [] OTHER -> p

RECURSIVE LoadDefinesKeys(_, _)
LoadDefinesKeys(p, keys) ==
    IF keys = <<>> THEN p ELSE LoadDefinesKeys(LoadDefinesKey(p, Head(keys)), Tail(keys))

\* the dependency tuples of one dependency-list key
RECURSIVE RelTokens(_, _, _, _)
RelTokens(name, toks, arch, relname) ==
    IF toks = <<>> THEN <<>>
    ELSE LET m == re_packagerel(Head(toks))
             rest == RelTokens(name, Tail(toks), arch, relname)
         IN IF ~m[1] THEN rest
            ELSE <<[package |-> name, dependency |-> m[2], relop |-> m[3],
                    version |-> IF m[4] # <<>> THEN m[4] ELSE NoText,
                    architecture |-> arch, relationship |-> relname]>> \o rest

RECURSIVE RelErrs(_, _)
RelErrs(toks, relname) ==
    IF toks = <<>> THEN <<>>
    ELSE (IF re_packagerel(Head(toks))[1] THEN <<>> ELSE <<<<relname, Head(toks)>>>>)
         \o RelErrs(Tail(toks), relname)

\* the second key loop of Package.load_defines (lines 114-135)
RECURSIVE LoadRelations(_, _)
LoadRelations(p, items) ==
    IF items = <<>> THEN p
    ELSE LET k == Head(items).k
             relvalue == Head(items).v
         IN IF ~re_relvars(k) THEN LoadRelations(p, Tail(items))
            ELSE LoadRelations(
                   [p EXCEPT !.dependencies = @ \o
                                RelTokens(p.name, Split(relvalue),
                                          IF Len(rsplit(k)) = 1 THEN ""
                                          ELSE Lower(rsplit(k)[2]),
                                          rsplit(k)[1]),
                             !.relerrs = @ \o RelErrs(Split(relvalue), rsplit(k)[1]),
                             !.spec = DictDel(@, k)],
                   Tail(items))

\* Package.load_defines
load_defines(p0, result, err) ==
    LET p1 == [p0 EXCEPT !.err_defines = err, !.spec = DictUpdate(@, result)]
        name == DictGet(p1.spec, Key("PKGNAME"), Null)
        p2 == [p1 EXCEPT !.spec = DictDel(@, Key("PKGNAME"))]
    IN IF ~Truthy(name) THEN p2
       ELSE LET p3 == LoadDefinesKeys([p2 EXCEPT !.name = name], DictKeys(p2.spec))
                p4 == LoadRelations(p3, p3.spec)
            IN [p4 EXCEPT !.dependencies = uniq(@)]

\* PackageGroup.package
package(g, result, err) ==
    load_defines(
        [name |-> g.name, tree |-> g.tree, secpath |-> g.secpath,
         category |-> g.category, section |-> g.section, directory |-> g.directory,
         pkg_section |-> Null, version |-> g.version, release |-> g.release,
         epoch |-> Null, vermask_arch |-> g.vermask_arch, description |-> Null,
         spec |-> g.spec, dependencies |-> <<>>, relerrs |-> <<>>,
         err_spec |-> g.err_spec, err_defines |-> Null],
        result, err)

(***************************************************************************)
(* File contents of a package group and the revision model                 *)
(***************************************************************************)
\* what lies under one <secpath>/<directory>: the spec file (a regular file, a
\* symlink, or none), its evaluated variables, and the defines files beneath it
\* in file-list order, each with its evaluated variables
Group(spec, svars, defines) ==
    [spec |-> spec, svars |-> svars, serr |-> Null, defines |-> defines]
Defines(result) == [vars |-> result, err |-> Null]
Gone == Group("none", <<>>, <<>>)

CP1 == Group("file", <<KV(Key("VER"), "1"), KV(Key("K1"), "a")>>,
             <<Defines(<<KV(Key("PKGNAME"), "p"), KV(Key("PKGDEP"), <<"d", "1">>)>>)>>)
CP2 == Group("file", <<KV(Key("VER"), "2"), KV(KeyA("VER", "ARM64"), "3"),
                       KV(Key("K2"), "b")>>,
             <<Defines(<<KV(Key("PKGNAME"), "p")>>)>>)
CQU == Group("file", <<KV(Key("VER"), "1")>>,
             <<Defines(<<KV(Key("PKGNAME"), "q")>>),
               Defines(<<KV(Key("PKGSEC"), "x")>>)>>)

EmptyTree == [l \in Locs |-> Gone]

\* a group whose spec file and defines files leave diagnostics: the shell
\* fallback failed on the spec and on the second defines file, and the first
\* defines file holds a malformed dependency token
CPE == [Group("file", <<KV(Key("VER"), "1")>>,
              <<Defines(<<KV(Key("PKGNAME"), "p"), KV(Key("PKGDEP"), <<"f", "!">>)>>),
                [Defines(<<KV(Key("PKGNAME"), "q")>>) EXCEPT !.err = "bash: line 1"]>>)
        EXCEPT !.serr = "bash: line 2"]

\* commit messages (fossil event.comment)
MsgPlain == "p: update"
MsgMerge == "Merge branch 'x'"

\* parse_commit_msg on the messages that occur
parse_commit_msg(name, text) ==
    CASE text = Null -> Null
      [] text = MsgMerge -> Null
      [] text = MsgPlain -> IF name = "p" THEN "update" ELSE text
      [] OTHER -> text

FileChange(status, segs, islink) == [status |-> status, segs |-> segs, islink |-> islink]

repo_ignore == {".git", ".github", ".githubwiki", ".abbs-repo", "repo-spec",
                "groups", "newpak", "assets"}

\* SourceRepo.exists for the path <secpath>/<directory>/spec of revision content t
exists(t, loc, isdir, ignorelink) ==
    IF loc \notin DOMAIN t THEN FALSE
    ELSE CASE t[loc].spec = "file" -> TRUE
           [] t[loc].spec = "link" -> ~ignorelink
           [] t[loc].spec = "dir" -> isdir
           [] OTHER -> FALSE

\* list_update without the set pkgs: a pair is yielded for every change under it
RECURSIVE ListUpdateRepeat(_, _, _)
ListUpdateRepeat(t, diff, pkgs) ==
    IF diff = <<>> THEN <<>>
    ELSE LET change == Head(diff)
             rest == Tail(diff)
         IN IF ~(Len(change.segs) > 2) THEN ListUpdateRepeat(t, rest, pkgs)
            ELSE LET l == Loc(change.segs[1], change.segs[2])
                     hasspec == exists(t, l, FALSE, TRUE)
                 IN IF l.secpath \in repo_ignore
                        THEN ListUpdateRepeat(t, rest, pkgs)
                    ELSE IF change.status = "+" /\ ~hasspec
                        THEN ListUpdateRepeat(t, rest, pkgs)
                    ELSE <<[loc |-> l,
                            change |-> IF change.status = "-" /\ hasspec
                                       THEN "+" ELSE change.status]>>
                         \o ListUpdateRepeat(t, rest, pkgs)
\* SourceRepo.list_update: the (location, change) pairs in the order yielded
RECURSIVE ListUpdate(_, _, _)
ListUpdate(t, diff, pkgs) ==
    IF diff = <<>> THEN <<>>
    ELSE LET change == Head(diff)
             rest == Tail(diff)
         IN IF ~(Len(change.segs) > 2) THEN ListUpdate(t, rest, pkgs)
            ELSE LET l == Loc(change.segs[1], change.segs[2])
                     hasspec == exists(t, l, FALSE, TRUE)
                 IN IF l.secpath \in repo_ignore \/ l \in pkgs
                        THEN ListUpdate(t, rest, pkgs)
                    ELSE IF change.status = "+" /\ ~hasspec
                        THEN ListUpdate(t, rest, pkgs)
                    ELSE <<[loc |-> l,
                            change |-> IF change.status = "-" /\ hasspec
                                       THEN "+" ELSE change.status]>>
                         \o ListUpdate(t, rest, pkgs \cup {l})
list_update(r) == ListUpdate(r.tree, r.diff, {})

\* read_package_info (both repositories): the Packages of the group at loc
RECURSIVE ReadDefines(_, _)
ReadDefines(g, defines) ==
    IF defines = <<>> THEN <<>>
    ELSE <<package(g, Head(defines).vars, Head(defines).err)>>
         \o ReadDefines(g, Tail(defines))
read_package_info(tree, content, loc) ==
    LET g == load_spec(PackageGroup(tree, loc.secpath, loc.directory),
                       content.svars, content.serr)
    IN ReadDefines(g, content.defines)

(***************************************************************************)
(* The catalog: tables as sets of rows                                     *)
(***************************************************************************)
EmptyDb ==
    [packages |-> {}, package_versions |-> {}, package_spec |-> {},
     package_dependencies |-> {}, package_duplicate |-> {}]

OrEmpty(s) == IF s = Null THEN "" ELSE s

PkgRow(self, pkg) ==
    [name |-> pkg.name, tree |-> self, category |-> pkg.category,
     section |-> pkg.section, pkg_section |-> pkg.pkg_section,
     directory |-> pkg.directory, description |-> pkg.description]
DupRow(name, tree, category, section, directory) ==
    [package |-> name, tree |-> tree, category |-> OrEmpty(category),
     section |-> section, directory |-> directory]
VerRow(name, branch, arch, version, release, epoch, ctime, githash) ==
    [package |-> name, branch |-> branch, architecture |-> arch,
     version |-> version, release |-> release, epoch |-> epoch,
     commit_time |-> ctime, githash |-> githash]

\* REPLACE INTO package_versions: primary key (package, branch, architecture)
ReplaceVer(rows, r) ==
    {x \in rows : ~(x.package = r.package /\ x.branch = r.branch
                    /\ x.architecture = r.architecture)} \cup {r}

\* REPLACE INTO package_dependencies, in order: key (package, dependency,
\* architecture, relationship)
RECURSIVE ReplaceDeps(_, _)
ReplaceDeps(rows, deps) ==
    IF deps = <<>> THEN rows
    ELSE LET r == Head(deps)
         IN ReplaceDeps(
              {x \in rows : ~(x.package = r.package /\ x.dependency = r.dependency
                              /\ x.architecture = r.architecture
                              /\ x.relationship = r.relationship)} \cup {r},
              Tail(deps))

\* the package_versions rows update_package writes for one branch (lines 381-392)
BranchVersions(rows, pkg, branch) ==
    LET base == ReplaceVer(rows, VerRow(pkg.name, branch, "", pkg.version,
                                        pkg.release, pkg.epoch, 0, 0))
        archrows == {VerRow(pkg.name, branch, a,
                            Or(pkg.vermask_arch[a].version, pkg.version),
                            Or(pkg.vermask_arch[a].release, pkg.release),
                            Or(pkg.vermask_arch[a].epoch, pkg.epoch), 0, 0)
                     : a \in DOMAIN pkg.vermask_arch}
    IN {x \in base : ~\E r \in archrows :
            x.package = r.package /\ x.branch = r.branch
            /\ x.architecture = r.architecture} \cup archrows

RECURSIVE AllBranchVersions(_, _, _)
AllBranchVersions(rows, pkg, branches) ==
    IF branches = <<>> THEN rows
    ELSE AllBranchVersions(BranchVersions(rows, pkg, Head(branches)), pkg, Tail(branches))

\* lines 393-402: the spec and dependency rows, written for the main branch
SpecRows(pkg) ==
    {[package |-> pkg.name, key |-> pkg.spec[i].k, value |-> pkg.spec[i].v]
     : i \in 1..Len(pkg.spec)}

WriteSpec(d, pkg) ==
    [d EXCEPT
       !.package_spec = {x \in @ : x.package # pkg.name} \cup SpecRows(pkg),
       !.package_dependencies =
            ReplaceDeps({x \in @ : x.package # pkg.name}, pkg.dependencies)]

\* LocalRepo.update_package
update_package(d, self, mainbranch, branches, pkg) ==
    LET found == {r \in d.packages : r.name = pkg.name}
        existing == CHOOSE r \in found : TRUE
        both == {DupRow(pkg.name, self, pkg.category, pkg.section, pkg.directory),
                 DupRow(pkg.name, existing.tree, existing.category,
                        existing.section, existing.directory)}
    IN IF found # {} /\ existing.tree # self
       THEN [d EXCEPT !.package_duplicate = @ \cup both]
       ELSE LET moved == found # {} /\
                         <<pkg.category, pkg.section, pkg.directory>> #
                         <<existing.category, existing.section, existing.directory>>
                d1 == IF moved THEN [d EXCEPT !.package_duplicate = @ \cup both] ELSE d
                d2 == [d1 EXCEPT
                         !.packages = {r \in @ : r.name # pkg.name} \cup {PkgRow(self, pkg)},
                         !.package_versions = AllBranchVersions(@, pkg, branches)]
            IN IF mainbranch \in Range(branches) THEN WriteSpec(d2, pkg) ELSE d2

RECURSIVE UpdatePackages(_, _, _, _, _)
UpdatePackages(d, self, mainbranch, branches, pkgs) ==
    IF pkgs = <<>> THEN d
    ELSE UpdatePackages(update_package(d, self, mainbranch, branches, Head(pkgs)),
                        self, mainbranch, branches, Tail(pkgs))

\* the catalog had the closing statement of scan_abbs_tree been left out
KeepSingleDuplicates(d) == d
\* the closing statement of both scan_abbs_tree: drop single-location duplicates
DropSingleDuplicates(d) ==
    [d EXCEPT !.package_duplicate =
        {x \in @ : Cardinality({y \in @ : y.package = x.package}) # 1}]

(***************************************************************************)
(* SourceRepo: the revision history and the steps of scan_abbs_tree        *)
(***************************************************************************)
Rev(rid) == revs[rid]
Rids == 1..Len(revs)

\* branches_of_commit: the tracked branches the revision is on, in self.branches order
branches_of_commit(rid) == SelectSeq(Branches, LAMBDA b : b \in Rev(rid).brs)

\* rows of package_rel: key (rid, package)
RelRow(rid, name, version, release, epoch, message) ==
    [rid |-> rid, package |-> name, version |-> version, release |-> release,
     epoch |-> epoch, message |-> message]
ReplaceRel(rows, r) ==
    {x \in rows : ~(x.rid = r.rid /\ x.package = r.package)} \cup {r}

AtLoc(row, self, loc) ==
    /\ row.tree = self
    /\ row.category = CategoryOf(loc.secpath)
    /\ row.section = SectionOf(loc.secpath)
    /\ row.directory = loc.directory
DupAtLoc(row, self, loc) ==
    /\ row.tree = self
    /\ row.category = OrEmpty(CategoryOf(loc.secpath))
    /\ row.section = SectionOf(loc.secpath)
    /\ row.directory = loc.directory

\* the names the removal loop of scan_abbs_tree visits (lines 740-744)
RecordedAt(d, self, loc) == {r.name : r \in {x \in d.packages : AtLoc(x, self, loc)}}

\* every recorded name taken for one whose last version row goes away
OrphanedAny(d, self, loc, brs) == RecordedAt(d, self, loc)
\* the names whose last version row goes away (lines 746-751)
Orphaned(d, self, loc, brs) ==
    {n \in RecordedAt(d, self, loc) :
        ~\E x \in d.package_versions : x.package = n /\ x.branch \notin brs}

\* SourceRepo.scan_abbs_tree lines 739-775: the removal half for one group
RemovePhase(d, self, loc, brs) ==
    LET names == RecordedAt(d, self, loc)
        dead == Orphaned(d, self, loc, brs)
    IN [packages |-> {r \in d.packages : r.name \notin dead},
        package_versions |->
            {x \in d.package_versions : ~(x.package \in names /\ x.branch \in brs)},
        package_spec |-> {x \in d.package_spec : x.package \notin dead},
        package_dependencies |-> {x \in d.package_dependencies : x.package \notin dead},
        package_duplicate |-> {x \in d.package_duplicate : ~DupAtLoc(x, self, loc)}]

\* lines 779-785: the package_rel rows of a present group
RECURSIVE RelPresent(_, _, _, _)
RelPresent(rows, rid, text, pkgs) ==
    IF pkgs = <<>> THEN rows
    ELSE LET pkg == Head(pkgs)
             cmsg == parse_commit_msg(pkg.name, text)
         IN RelPresent(
              IF Truthy(cmsg)
              THEN ReplaceRel(rows, RelRow(rid, pkg.name, pkg.version, pkg.release,
                                           pkg.epoch, cmsg))
              ELSE rows,
              rid, text, Tail(pkgs))

\* rows of package_basherr: key (rid, filename); the file is the spec of the
\* group (file 0) or its i-th defines file
ErrFile(loc, i) == [loc |-> loc, file |-> i]
ErrRow(rid, filename, pkg, name, err) ==
    [rid |-> rid, filename |-> filename, category |-> OrEmpty(pkg.category),
     section |-> pkg.section, directory |-> pkg.directory, package |-> name, err |-> err]
ReplaceErr(rows, r) ==
    {x \in rows : ~(x.rid = r.rid /\ x.filename = r.filename)} \cup {r}
\* Package.err_defines when load_defines returns (lines 115, 134-135)
err_defines(pkg) == [bash |-> pkg.err_defines, rel |-> pkg.relerrs]
HasErr(pkg) == Truthy(pkg.err_defines) \/ pkg.relerrs # <<>>

\* lines 779-792: the package_basherr rows of the defines files of a present
\* group, written after the test of the commit message
RECURSIVE ErrDefines(_, _, _, _, _)
ErrDefines(rows, rid, text, pkgs, i) ==
    IF i > Len(pkgs) THEN rows
    ELSE ErrDefines(
           IF Truthy(parse_commit_msg(pkgs[i].name, text)) /\ HasErr(pkgs[i])
           THEN ReplaceErr(rows, ErrRow(rid, ErrFile(Loc(pkgs[i].secpath, pkgs[i].directory), i),
                                        pkgs[i], pkgs[i].name, err_defines(pkgs[i])))
           ELSE rows,
           rid, text, pkgs, i + 1)
\* lines 793-799: the package_basherr row of the spec file of the group
ErrSpec(rows, rid, g) ==
    IF Truthy(g.err_spec)
    THEN ReplaceErr(rows, ErrRow(rid, ErrFile(Loc(g.secpath, g.directory), 0), g, Null,
                                 [bash |-> g.err_spec, rel |-> <<>>]))
    ELSE rows
ErrPresent(rows, rid, text, pkgs, g) ==
    ErrSpec(ErrDefines(rows, rid, text, pkgs, 1), rid, g)

\* lines 801-806: the package_rel rows of an absent group
RelAbsent(rows, rid, text, names) ==
    {x \in rows : ~(x.rid = rid /\ x.package \in names)} \cup
    {RelRow(rid, n, Null, Null, Null, parse_commit_msg(n, text)) : n \in names}

\* secpath from the columns of package_duplicate (lines 810-811)
SecPathJoin(category, section) ==
    IF category = "" THEN section
    ELSE LET m == {sp \in SecPaths : CategoryOf(sp) = category /\ SectionOf(sp) = section}
         IN IF m = {} THEN Null ELSE CHOOSE sp \in m : TRUE

\* lines 808-814: the locations of duplicates whose package has no packages row
SweepLocs(d, self) ==
    {Loc(SecPathJoin(x.category, x.section), x.directory) :
        x \in {y \in d.package_duplicate :
                 y.tree = self /\ y.package \notin {r.name : r \in d.packages}}}

\* lines 815-820 over the fetched locations in the order given
RECURSIVE Sweep(_, _, _, _, _)
Sweep(d, self, t, brs, order) ==
    IF order = <<>> THEN d
    ELSE LET l == Head(order)
         IN Sweep(IF exists(t, l, TRUE, FALSE)
                  THEN UpdatePackages(d, self, MainBranch, brs,
                                      read_package_info(self, t[l], l))
                  ELSE d,
                  self, t, brs, Tail(order))

Orders(S) == {o \in [1..Cardinality(S) -> S] : Range(o) = S}

(***************************************************************************)
(* SourceRepo.repo_update: work list and the closing branch update         *)
(***************************************************************************)
\* lines 830-835: newest commit_time of this tree's packages; NULL is 0
TreeVersions(d, self) ==
    {v \in d.package_versions :
        \E r \in d.packages : r.name = v.package /\ r.tree = self}
MaxOf(S) == CHOOSE m \in S : \A x \in S : x <= m
last_update(d, self) ==
    IF TreeVersions(d, self) = {} THEN 0
    ELSE MaxOf({v.commit_time : v \in TreeVersions(d, self)})
\* the newest row has no commit_time, so last_update is None: what
\* fossil.unix_to_julian(None) does is outside the source, so the run either
\* raises there or goes on as from time 0
LastUpdateIsNone(d, self) ==
    TreeVersions(d, self) # {} /\ last_update(d, self) = 0

last_rid(rl) == IF rl = {} THEN 0 ELSE MaxOf({x.rid : x \in rl})

\* lines 839-844: ORDER BY mtime, objid
RECURSIVE SortRevs(_)
SortRevs(S) ==
    IF S = {} THEN <<>>
    ELSE LET m == CHOOSE r \in S : \A x \in S :
                    Rev(r).mtime < Rev(x).mtime \/ (Rev(r).mtime = Rev(x).mtime /\ r <= x)
         IN <<m>> \o SortRevs(S \ {m})
WorkList(lu, lr) == SortRevs({r \in Rids : Rev(r).mtime >= lu \/ r > lr})

\* lines 857-876: per (package, branch) of this tree the package_rel row of the
\* newest revision on that branch; the architecture is that of any current
\* version row of the pair
RelOn(rl, n, b) == {x \in rl : x.package = n /\ b \in Rev(x.rid).brs}
Newest(rl, n, b) ==
    {x \in RelOn(rl, n, b) : \A y \in RelOn(rl, n, b) : Rev(y.rid).mtime <= Rev(x.rid).mtime}
ArchsOf(d, n, b) ==
    LET a == {v.architecture : v \in {x \in d.package_versions :
                                        x.package = n /\ x.branch = b}}
    IN IF a = {} THEN {""} ELSE a
BranchPairs(rl) ==
    {pb \in {x.package : x \in rl} \X BranchSet : RelOn(rl, pb[1], pb[2]) # {}}
PairRows(d, rl, pb) ==
    {VerRow(x.package, pb[2], a, x.version, x.release, x.epoch,
            Rev(x.rid).mtime, x.rid)
     : x \in Newest(rl, pb[1], pb[2]), a \in ArchsOf(d, pb[1], pb[2])}
t_package_versions(d, rl) ==
    LET pairs == BranchPairs(rl)
        allrows == UNION {PairRows(d, rl, pb) : pb \in pairs}
    IN {{f[pb] : pb \in pairs} :
          f \in {g \in [pairs -> allrows] : \A pb \in pairs : g[pb] \in PairRows(d, rl, pb)}}

\* lines 876-887: drop the rows without version, REPLACE the ones that differ
SameVersion(t, v) ==
    /\ t.package = v.package /\ t.branch = v.branch
    /\ t.version = v.version /\ t.release = v.release /\ t.epoch = v.epoch
    /\ t.commit_time = v.commit_time /\ t.githash = v.githash
BranchUpdate(d, t) ==
    LET rows == {x \in t : x.version # Null}
        new == {x \in rows : ~\E v \in d.package_versions : SameVersion(x, v)}
    IN [d EXCEPT !.package_versions =
          {v \in @ : ~\E x \in new : x.package = v.package /\ x.branch = v.branch
                                     /\ x.architecture = v.architecture} \cup new]

\* LocalRepo.reset_progress / SourceRepo.reset_progress
reset_progress(d, self) ==
    [d EXCEPT
       !.package_versions =
           {v \in @ : ~\E r \in d.packages : r.name = v.package /\ r.tree = self},
       !.package_duplicate = {x \in @ : x.tree # self}]

\* a reset that leaves the marks in place
reset_marks_kept(rows) == rows
\* SourceRepo.reset_progress lines 895-897: DELETE FROM package_rel and
\* DELETE FROM package_basherr
reset_marks(rows) == {}

(***************************************************************************)
(* LocalRepo.scan_abbs_tree                                                *)
(***************************************************************************)
\* lines 424-438: the directories holding at least one regular file
HasRegular(c) == c.spec = "file" \/ c.defines # <<>>
t_localdirs == {l \in Locs : HasRegular(ldir[l].content)}

FullLoc(row) == Loc(SecPathJoin(OrEmpty(row.category), row.section), row.directory)

\* lines 446-456: one row per version row of this tree's packages on its branch
t_lastdirs(d, self) ==
    {[loc |-> FullLoc(pv[1]), name |-> pv[1].name, arch |-> pv[2].architecture,
      mtime |-> pv[2].commit_time]
     : pv \in {x \in d.packages \X d.package_versions :
                 x[1].tree = self /\ x[2].package = x[1].name
                 /\ x[2].branch = LocalBranch}}

\* lines 458-464: the rows to remove, with isdel
t_pkgrm(d, self) ==
    {[name |-> a.name, arch |-> a.arch, isdel |-> a.loc \notin t_localdirs]
     : a \in {x \in t_lastdirs(d, self) :
                \/ x.loc \notin t_localdirs
                \/ x.mtime = 0
                \/ ldir[x.loc].mtime > x.mtime}}

\* lines 465-469: one line per row of t_pkgrm
LocalRemovedLines(d, self) == {x \in t_pkgrm(d, self) : x.isdel}

\* lines 470-487
LocalDeletePhase(d, self) ==
    LET rm == {x.name : x \in t_pkgrm(d, self)}
    IN [packages |-> {r \in d.packages : r.name \notin rm},
        package_versions |->
            {v \in d.package_versions : ~(v.branch = LocalBranch /\ v.package \in rm)},
        package_spec |-> {x \in d.package_spec : x.package \notin rm},
        package_dependencies |-> {x \in d.package_dependencies : x.package \notin rm},
        \* the subquery selects category, section, directory from t_pkgrm, which has
        \* no such columns: they are the outer row's own, so every row of the tree
        \* matches as soon as t_pkgrm has a row
        package_duplicate |->
            {x \in d.package_duplicate : ~(x.tree = self /\ t_pkgrm(d, self) # {})}]

\* lines 488-493, evaluated against the t_lastdirs built before the deletions
LocalChanged(d, self) ==
    {l \in t_localdirs :
        \/ ~\E a \in t_lastdirs(d, self) : a.loc = l
        \/ \E a \in t_lastdirs(d, self) : a.loc = l /\ (a.mtime = 0 \/ ldir[l].mtime > a.mtime)}

\* lines 499-503
SetCommitTime(d, name, mtime) ==
    [d EXCEPT !.package_versions =
        {IF v.package = name /\ v.branch = LocalBranch
         THEN [v EXCEPT !.commit_time = mtime] ELSE v : v \in @}]

RECURSIVE LocalPackages(_, _, _, _)
LocalPackages(d, self, pkgs, mtime) ==
    IF pkgs = <<>> THEN d
    ELSE LocalPackages(
           SetCommitTime(update_package(d, self, LocalBranch, <<LocalBranch>>, Head(pkgs)),
                         Head(pkgs).name, mtime),
           self, Tail(pkgs), mtime)

\* lines 494-503 over the changed directories in the order fetched; open() of a
\* missing spec raises and ends the loop (res.ok = FALSE)
RECURSIVE LocalAddPhase(_, _, _)
LocalAddPhase(d, self, order) ==
    IF order = <<>> THEN [ok |-> TRUE, db |-> d]
    ELSE LET l == Head(order)
             c == ldir[l].content
         IN IF c.spec = "none" THEN [ok |-> FALSE, db |-> d]
            ELSE LocalAddPhase(
                   LocalPackages(d, self, read_package_info(self, c, l), ldir[l].mtime),
                   self, Tail(order))

(***************************************************************************)
(* The state machine                                                       *)
(***************************************************************************)
AllBranchSets == (SUBSET BranchSet) \ {{}}

NoRun == [pc |-> "idle", todo |-> <<>>, mid |-> 0, groups |-> <<>>, removed |-> {}]

\* obs records what the properties look at; no action's guard or effect on the
\* program state reads it, except the run and edit counters that bound the model.
\*   last     what the last step was
\*   n, edits runs started and local edits made so far
\*   settled  the tree whose run completed last with the input unchanged since
\*   rerun    this run follows a completed run of the same tree on unchanged
\*            input (not counted when last_update is None, see LastUpdateIsNone)
\*   base     the catalog when such a run started
\*   full     catalog and marker store when the last revision was completed
\*   inrev    the interrupt arrived inside a revision
\*   unc      revisions of this run whose catalog writes are not committed
\*   done     revisions completed with at least one group reconciled
\*   rescan   a revision of done was reconciled again
\*   gone     names recorded at a location whose group the pass saw deleted
\*   pre      the catalog before the current group was reconciled
\*   read     the Packages read for the current group
\*   xt       rows of the names another tree owned when this run reconciled them
\*   start    how the current source run started: with reset, on an empty catalog
NoObs ==
    [last |-> "init", n |-> 0, edits |-> 0,
     settled |-> "none", rerun |-> FALSE, base |-> EmptyDb,
     full |-> [db |-> EmptyDb, rel |-> {}], inrev |-> FALSE,
     unc |-> {}, done |-> {}, rescan |-> FALSE,
     gone |-> {}, pre |-> EmptyDb, read |-> <<>>, xt |-> {},
     start |-> [reset |-> FALSE, empty |-> FALSE]]

\* no function of the library is being applied
NoCall == [fn |-> Null]

\* the catalog, the marks and the trees after construction
InitRepo ==
    /\ revs = <<>>
    /\ ldir = [l \in Locs |-> [content |-> Gone, mtime |-> 0]]
    /\ db = EmptyDb /\ dbd = EmptyDb
    /\ rel = {} /\ reld = {}
    /\ basherr = {} /\ basherrd = {}
    /\ run = NoRun
    /\ log = <<>>
    /\ obs = NoObs

Init == InitRepo /\ call = NoCall

Idle == run.pc = "idle"

\* logging.info('removed: ' + name), one line per name
Removed(name) == [kind |-> "removed", name |-> name]
RemovedLines(names) ==
    LET o == CHOOSE x \in Orders(names) : TRUE
    IN [i \in 1..Len(o) |-> Removed(o[i])]

\* the 'removed:' lines of the local scan: one per row of t_pkgrm with isdel
RemovedLinesOf(rows) ==
    LET o == CHOOSE x \in Orders(rows) : TRUE
    IN [i \in 1..Len(o) |-> Removed(o[i].name)]

\* every catalog row of one package name
RowsOf(d, name) ==
    [name |-> name,
     packages |-> {r \in d.packages : r.name = name},
     package_versions |-> {r \in d.package_versions : r.package = name},
     package_spec |-> {r \in d.package_spec : r.package = name},
     package_dependencies |-> {r \in d.package_dependencies : r.package = name}]

\* the content at the tip of a branch
HeadTree(b) ==
    LET on == {r \in Rids : b \in Rev(r).brs}
    IN IF on = {} THEN EmptyTree ELSE Rev(MaxOf(on)).tree

\* the branches of B have the same revisions so far
SharedHistory(B) == \A r \in Rids : B \subseteq Rev(r).brs \/ B \cap Rev(r).brs = {}

\* fossil mlink rows of a revision that rewrites or deletes the group at l
DiffOf(l, c) ==
    <<FileChange(IF c = Gone THEN "-" ELSE "+",
                 <<l.secpath, l.directory, "spec">>, c.spec = "link")>>

\* a new revision becomes visible (reposync.sync): it changes one package group
Commit(BranchSets, Msgs, Contents) ==
    /\ Idle
    /\ Len(revs) < MaxRev
    /\ \E B \in BranchSets, msg \in Msgs, l \in Locs, c \in Contents :
         /\ SharedHistory(B)
         /\ LET old == HeadTree(CHOOSE b \in B : TRUE)
            IN /\ c # old[l]
               /\ revs' = Append(revs, [mtime |-> Len(revs) + 1, brs |-> B, msg |-> msg,
                                        tree |-> [old EXCEPT ![l] = c],
                                        diff |-> DiffOf(l, c)])
    /\ obs' = [obs EXCEPT !.last = "commit", !.settled = "none",
                          !.rerun = FALSE, !.base = EmptyDb]
    /\ UNCHANGED <<call, ldir, db, dbd, rel, basherr, reld, basherrd, run, log>>

\* SourceRepo.update up to the work list of repo_update (lines 573-844)
SrcStart(reset) ==
    /\ Idle
    /\ obs.n < MaxRuns
    /\ LET d0 == IF reset THEN reset_progress(db, SrcTree) ELSE db
           r0 == IF reset THEN reset_marks(rel) ELSE rel
       IN \E fails \in (IF LastUpdateIsNone(d0, SrcTree) THEN BOOLEAN ELSE {FALSE}) :
          /\ db' = d0 /\ dbd' = d0 /\ rel' = r0 /\ reld' = r0
          /\ basherr' = (IF reset THEN reset_marks(basherr) ELSE basherr)
          /\ basherrd' = (IF reset THEN reset_marks(basherr) ELSE basherr)
          /\ run' = IF fails THEN NoRun
                    ELSE [NoRun EXCEPT !.pc = "loop",
                            !.todo = WorkList(last_update(d0, SrcTree), last_rid(r0))]
          /\ obs' = [obs EXCEPT !.last = IF fails THEN "error" ELSE "start",
                                !.n = @ + 1,
                                !.rerun = /\ ~reset /\ obs.settled = SrcTree
                                          /\ ~LastUpdateIsNone(d0, SrcTree),
                                !.base = IF /\ ~reset /\ obs.settled = SrcTree
                                            /\ ~LastUpdateIsNone(d0, SrcTree)
                                         THEN d0 ELSE EmptyDb,
                                !.settled = "none",
                                !.full = [db |-> d0, rel |-> r0], !.inrev = FALSE,
                                !.unc = {}, !.xt = {},
                                !.start = [reset |-> reset,
                                           empty |-> db = EmptyDb /\ rel = {}],
                                !.done = IF reset \/ LastUpdateIsNone(d0, SrcTree)
                                         THEN {} ELSE @]
    /\ log' = <<>>
    /\ UNCHANGED <<call, revs, ldir>>

\* repo_update's loop head and the start of scan_abbs_tree (lines 845-848, 725-737)
ScanNext ==
    /\ run.pc = "loop"
    /\ run.todo # <<>>
    /\ LET mid == Head(run.todo)
           skip == branches_of_commit(mid) = <<>> \/ \E x \in rel : x.rid = mid
           groups == list_update(Rev(mid))
       IN /\ run' = IF skip THEN [run EXCEPT !.todo = Tail(@)]
                    ELSE [run EXCEPT !.mid = mid, !.groups = groups, !.removed = {},
                                     !.pc = IF groups = <<>> THEN "sweep" ELSE "rm"]
          /\ obs' = [obs EXCEPT !.last = IF skip THEN "skip" ELSE "begin",
                                !.rescan = @ \/ (~skip /\ mid \in obs.done),
                                !.gone = {}, !.read = <<>>, !.pre = EmptyDb]
          /\ log' = IF skip THEN log ELSE <<>>
    /\ UNCHANGED <<call, revs, ldir, db, dbd, rel, basherr, reld, basherrd>>

\* scan_abbs_tree lines 739-775 for the next group
RmStep ==
    /\ run.pc = "rm"
    /\ LET g == Head(run.groups)
           brs == Rev(run.mid).brs
           names == RecordedAt(db, SrcTree, g.loc)
           dead == Orphaned(db, SrcTree, g.loc, brs)
       IN /\ db' = RemovePhase(db, SrcTree, g.loc, brs)
          /\ log' = IF g.change = "-" THEN log \o RemovedLines(dead) ELSE log
          /\ run' = [run EXCEPT !.pc = "add",
                                !.removed = IF g.change = "-" THEN names ELSE {}]
          /\ obs' = [obs EXCEPT !.last = "rm", !.pre = db,
                                !.gone = IF g.change = "-" /\ Rev(run.mid).tree[g.loc] = Gone
                                         THEN @ \cup names ELSE @]
    /\ UNCHANGED <<call, revs, ldir, dbd, rel, basherr, reld, basherrd>>

\* scan_abbs_tree lines 776-806 for the same group
AddStep ==
    /\ run.pc = "add"
    /\ LET g == Head(run.groups)
           mid == run.mid
           pkgs == IF g.change = "+"
                   THEN read_package_info(SrcTree, Rev(mid).tree[g.loc], g.loc)
                   ELSE <<>>
           foreign == {i \in 1..Len(pkgs) :
                         \E r \in db.packages : r.name = pkgs[i].name /\ r.tree # SrcTree}
       IN /\ db' = UpdatePackages(db, SrcTree, MainBranch, branches_of_commit(mid), pkgs)
          /\ rel' = IF g.change = "+" THEN RelPresent(rel, mid, Rev(mid).msg, pkgs)
                    ELSE RelAbsent(rel, mid, Rev(mid).msg, run.removed)
          /\ basherr' = IF g.change = "+"
                        THEN ErrPresent(basherr, mid, Rev(mid).msg, pkgs,
                                        load_spec(PackageGroup(SrcTree, g.loc.secpath,
                                                               g.loc.directory),
                                                  Rev(mid).tree[g.loc].svars,
                                                  Rev(mid).tree[g.loc].serr))
                        ELSE basherr
          /\ run' = [run EXCEPT !.groups = Tail(@), !.removed = {},
                                !.pc = IF Tail(run.groups) = <<>> THEN "sweep" ELSE "rm"]
          /\ obs' = [obs EXCEPT !.last = "add", !.read = pkgs,
                                !.xt = IF @ = {} /\ foreign # {}
                                       THEN {[rows |-> RowsOf(db, pkgs[i].name), loc |-> g.loc]
                                             : i \in foreign}
                                       ELSE @]
    /\ UNCHANGED <<call, revs, ldir, dbd, reld, basherrd, log>>

\* scan_abbs_tree lines 807-825: the recovery sweep and the duplicate cleanup
SweepStep ==
    /\ run.pc = "sweep"
    /\ \E order \in Orders(SweepLocs(db, SrcTree)) :
         db' = DropSingleDuplicates(
                 Sweep(db, SrcTree, Rev(run.mid).tree, branches_of_commit(run.mid), order))
    /\ run' = [run EXCEPT !.pc = "loop", !.todo = Tail(@)]
    /\ obs' = [obs EXCEPT !.last = "sweep",
                          !.full = [db |-> db', rel |-> rel],
                          !.unc = IF db' # obs.full.db THEN @ \cup {run.mid} ELSE @,
                          !.done = IF list_update(Rev(run.mid)) # <<>>
                                   THEN @ \cup {run.mid} ELSE @]
    /\ UNCHANGED <<call, revs, ldir, dbd, rel, basherr, reld, basherrd, log>>

\* repo_update lines 849-852: the marks store is committed and closed
MarksCommit ==
    /\ run.pc = "loop"
    /\ run.todo = <<>>
    /\ reld' = rel
    /\ basherrd' = basherr
    /\ run' = [run EXCEPT !.pc = "branch"]
    /\ obs' = [obs EXCEPT !.last = "marks"]
    /\ UNCHANGED <<call, revs, ldir, db, dbd, rel, basherr, log>>

\* repo_update lines 853-891 and close(): the branch update and the catalog commit
BranchStep ==
    /\ run.pc = "branch"
    /\ \E t \in t_package_versions(db, reld) : db' = BranchUpdate(db, t)
    /\ dbd' = db'
    /\ run' = NoRun
    /\ obs' = [obs EXCEPT !.last = "branch", !.settled = SrcTree, !.unc = {}]
    /\ UNCHANGED <<call, revs, ldir, rel, basherr, reld, basherrd, log>>

\* KeyboardInterrupt or an exception inside repo_update: update() logs it and
\* close() commits the open catalog transaction; the marks connection is dropped
Interrupt ==
    /\ run.pc \in {"loop", "rm", "add", "sweep", "branch"}
    /\ dbd' = db
    /\ rel' = reld
    /\ basherr' = basherrd
    /\ run' = NoRun
    /\ obs' = [obs EXCEPT !.last = "interrupt", !.settled = "none",
                          !.inrev = run.pc \in {"rm", "add", "sweep"},
                          !.unc = {}, !.done = {}]
    /\ UNCHANGED <<call, revs, ldir, db, reld, basherrd, log>>

\* the process dies: uncommitted writes of both connections are lost
Crash ==
    /\ run.pc \in {"loop", "rm", "add", "sweep", "branch"}
    /\ db' = dbd
    /\ rel' = reld
    /\ basherr' = basherrd
    /\ run' = NoRun
    /\ obs' = [obs EXCEPT !.last = "crash", !.settled = "none", !.done = {}]
    /\ UNCHANGED <<call, revs, ldir, dbd, reld, basherrd, log>>

\* the local directory changes: one package group is rewritten or deleted
LocalEdit(Contents) ==
    /\ Idle
    /\ obs.edits < MaxEdits
    /\ \E l \in Locs, c \in Contents :
         /\ c # ldir[l].content
         /\ ldir' = [ldir EXCEPT ![l] = [content |-> c, mtime |-> obs.edits + 1]]
    /\ obs' = [obs EXCEPT !.last = "ledit", !.edits = @ + 1, !.settled = "none",
                          !.rerun = FALSE, !.base = EmptyDb]
    /\ UNCHANGED <<call, revs, db, dbd, rel, basherr, reld, basherrd, run, log>>

\* LocalRepo.update and scan_abbs_tree up to the commit of line 487
LocalStart ==
    /\ Idle
    /\ obs.n < MaxRuns
    /\ db' = LocalDeletePhase(db, LocTree)
    /\ dbd' = db'
    /\ log' = RemovedLinesOf(LocalRemovedLines(db, LocTree))
    /\ \E order \in Orders(LocalChanged(db, LocTree)) :
         run' = [NoRun EXCEPT !.pc = "ladd", !.groups = order]
    /\ obs' = [obs EXCEPT !.last = "ldel", !.n = @ + 1,
                          !.rerun = obs.settled = LocTree,
                          !.base = IF obs.settled = LocTree THEN db ELSE EmptyDb,
                          !.settled = "none",
                          !.gone = {r.name : r \in {x \in db.packages :
                                      x.tree = LocTree /\ FullLoc(x) \notin t_localdirs}},
                          !.xt = {}, !.read = <<>>, !.pre = EmptyDb]
    /\ UNCHANGED <<call, revs, ldir, rel, basherr, reld, basherrd>>

\* scan_abbs_tree lines 488-509 and close()
LocalAdd ==
    /\ run.pc = "ladd"
    /\ LET res == LocalAddPhase(db, LocTree, run.groups)
       IN /\ db' = IF res.ok THEN DropSingleDuplicates(res.db) ELSE res.db
          /\ dbd' = db'
          /\ obs' = [obs EXCEPT !.last = IF res.ok THEN "ladd" ELSE "error",
                                !.settled = IF res.ok THEN LocTree ELSE "none"]
    /\ run' = NoRun
    /\ UNCHANGED <<call, revs, ldir, rel, basherr, reld, basherrd, log>>

(***************************************************************************)
(* Specifications                                                          *)
(***************************************************************************)
\* the source tree with forking branches, interrupts and crashes
Next ==
    \/ Commit(AllBranchSets, {MsgPlain}, {CP1, CP2, Gone})
    \/ SrcStart(FALSE)
    \/ ScanNext
    \/ RmStep
    \/ AddStep
    \/ SweepStep
    \/ MarksCommit
    \/ BranchStep
    \/ Interrupt
    \/ Crash

Spec == Init /\ [][Next]_vars

\* the source tree on one line of history, with merge commits
NextMsg ==
    \/ Commit({BranchSet}, {MsgPlain, MsgMerge}, {CP1, CQU, Gone})
    \/ SrcStart(FALSE)
    \/ ScanNext
    \/ RmStep
    \/ AddStep
    \/ SweepStep
    \/ MarksCommit
    \/ BranchStep

SpecMsg == Init /\ [][NextMsg]_vars

\* the source tree on one line of history, with files that leave diagnostics
NextErr ==
    \/ Commit({BranchSet}, {MsgPlain, MsgMerge}, {CPE, CP1, Gone})
    \/ SrcStart(FALSE)
    \/ ScanNext
    \/ RmStep
    \/ AddStep
    \/ SweepStep
    \/ MarksCommit
    \/ BranchStep

SpecErr == Init /\ [][NextErr]_vars

\* the source tree on one line of history, updated with and without reset
NextReset ==
    \/ Commit({BranchSet}, {MsgPlain, MsgMerge}, {CP1, CQU, Gone})
    \/ SrcStart(FALSE)
    \/ SrcStart(TRUE)
    \/ ScanNext
    \/ RmStep
    \/ AddStep
    \/ SweepStep
    \/ MarksCommit
    \/ BranchStep
    \/ Interrupt

SpecReset == Init /\ [][NextReset]_vars

\* the local tree and the source tree sharing one catalog
NextTrees ==
    \/ Commit({BranchSet}, {MsgPlain}, {CP1, Gone})
    \/ SrcStart(FALSE)
    \/ ScanNext
    \/ RmStep
    \/ AddStep
    \/ SweepStep
    \/ MarksCommit
    \/ BranchStep
    \/ LocalEdit({CP1, CP2, Gone})
    \/ LocalStart
    \/ LocalAdd

SpecTrees == Init /\ [][NextTrees]_vars

\* a revision becomes visible through a sync (reposync.sync) whose timestamp
\* is any time, also one before the revisions already there: the record id
\* counts the order of arrival, the timestamp is the one its author's clock
\* gave
Sync(BranchSets, Msgs, Contents) ==
    /\ Idle
    /\ Len(revs) < MaxRev
    /\ \E B \in BranchSets, msg \in Msgs, l \in Locs, c \in Contents, t \in 1..MaxRev :
         /\ SharedHistory(B)
         /\ LET old == HeadTree(CHOOSE b \in B : TRUE)
            IN /\ c # old[l]
               /\ revs' = Append(revs, [mtime |-> t, brs |-> B, msg |-> msg,
                                        tree |-> [old EXCEPT ![l] = c],
                                        diff |-> DiffOf(l, c)])
    /\ obs' = [obs EXCEPT !.last = "commit", !.settled = "none",
                          !.rerun = FALSE, !.base = EmptyDb]
    /\ UNCHANGED <<call, ldir, db, dbd, rel, basherr, reld, basherrd, run, log>>

\* the source tree on one line of history, revisions arriving with any
\* timestamp
NextSync ==
    \/ Sync({BranchSet}, {MsgPlain}, {CP1, Gone})
    \/ SrcStart(FALSE)
    \/ ScanNext
    \/ RmStep
    \/ AddStep
    \/ SweepStep
    \/ MarksCommit
    \/ BranchStep

SpecSync == Init /\ [][NextSync]_vars


(***************************************************************************)
(* Package.load_defines applied to the variables of one defines file       *)
(***************************************************************************)
\* texts of at most n characters over an alphabet
RECURSIVE Texts(_, _)
Texts(alphabet, n) ==
    IF n = 0 THEN {<<>>}
    ELSE LET shorter == Texts(alphabet, n - 1)
         IN shorter \cup {Append(t, c) : t \in {x \in shorter : Len(x) = n - 1}, c \in alphabet}

\* a lower-case letter, a digit, an upper-case letter, the operator
\* characters, a blank and a character no dependency may hold
DepAlphabet == {"f", "1", "V", ">", "=", " ", "!"}
DepKeys == {Key("PKGDEP"), KeyA("PKGDEP", "ARM64"), Key("PKGRECOM"),
            KeyA("PKGDEP", "ARM__64")}
DepExample == <<"f", "o", "o", ">", "=", "1", ".", "0", " ", "b", "a", "r">>

\* the evaluated variables of a defines file: PKGNAME and one or two
\* dependency lists
DefinesInputs ==
    {<<KV(Key("PKGNAME"), "baz"), KV(Key("PKGDEP"), v)>> :
        v \in Texts(DepAlphabet, MaxDepLen) \cup {DepExample}}
    \cup {<<KV(Key("PKGNAME"), "baz"), KV(ks[1], v1), KV(ks[2], v2)>> :
            ks \in {x \in DepKeys \X DepKeys : x[1] # x[2]},
            v1 \in Texts(DepAlphabet, MaxDepLen2), v2 \in Texts(DepAlphabet, MaxDepLen2)}

InitDeps ==
    /\ InitRepo
    /\ call \in {[fn |-> "load_defines", result |-> r, done |-> FALSE, ret |-> Null] :
                    r \in DefinesInputs}

\* PackageGroup.package(result) on a freshly constructed group
LoadDefines ==
    /\ call.fn = "load_defines" /\ ~call.done
    /\ call' = [call EXCEPT !.done = TRUE,
                            !.ret = package(PackageGroup(SrcTree, "extra-a", "p"),
                                            call.result, Null)]
    /\ UNCHANGED <<revs, ldir, db, dbd, rel, basherr, reld, basherrd, run, log, obs>>

NextDeps == LoadDefines

SpecDeps == InitDeps /\ [][NextDeps]_vars


(***************************************************************************)
(* bashvar.py: parameter expansion (combine_value, _compile_pattern)       *)
(***************************************************************************)
\* int() of the text of an offset or a length: digits, or '-' and digits
DigitValue(c) ==
    CASE c = "0" -> 0 [] c = "1" -> 1 [] c = "2" -> 2 [] c = "3" -> 3 [] c = "4" -> 4
      [] c = "5" -> 5 [] c = "6" -> 6 [] c = "7" -> 7 [] c = "8" -> 8 [] OTHER -> 9
RECURSIVE int(_)
int(text) ==
    IF text = <<>> THEN 0
    ELSE IF Head(text) = "-" THEN 0 - int(Tail(text))
    ELSE 10 * int(SubSeq(text, 1, Len(text) - 1)) + DigitValue(text[Len(text)])

\* the Python slice var[start:stop]
Slice(var, start, stop) ==
    LET n == Len(var)
        Clamp(i) == IF i < 0 THEN (IF i + n < 0 THEN 0 ELSE i + n)
                    ELSE (IF i > n THEN n ELSE i)
    IN SubSeq(var, Clamp(start) + 1, Clamp(stop))

\* a compiled regular expression is a sequence of items: a literal
\* character, '.', '.*', '.*?', '(' opening group 1, and '$'
Lit(c) == [op |-> "lit", c |-> c]
Dot == [op |-> ".", c |-> Null]
Star == [op |-> ".*", c |-> Null]
Lazy == [op |-> ".*?", c |-> Null]
Open == [op |-> "(", c |-> Null]
Dollar == [op |-> "$", c |-> Null]

\* re.escape(pattern) with '\?' and '\*' replaced
RegexOf(pattern, star) ==
    [i \in 1..Len(pattern) |->
        CASE pattern[i] = "?" -> Dot
          [] pattern[i] = "*" -> star
          [] OTHER -> Lit(pattern[i])]

\* _compile_pattern(pattern, greedy, mode)
compile_pattern(pattern, greedy, mode) ==
    IF mode = "end"
    THEN <<IF greedy THEN Lazy ELSE Star, Open>> \o RegexOf(pattern, Star) \o <<Dollar>>
    ELSE RegexOf(pattern, IF greedy THEN Star ELSE Lazy)

\* no match
NoMatch == [end |-> -1, start1 |-> -1]

\* the backtracking matcher: the first match of the items from position k
\* (characters consumed so far) in the order the engine tries them;
\* '.' does not match a newline, '$' matches at the end and before a
\* final newline
RECURSIVE MatchAt(_, _, _, _)
RECURSIVE FirstOf(_, _, _, _)
MatchAt(items, var, k, g) ==
    IF items = <<>> THEN [end |-> k, start1 |-> g]
    ELSE LET it == Head(items)
             n == Len(var)
             reach == CHOOSE j \in k..n :
                        /\ \A i \in (k + 1)..j : var[i] # "\n"
                        /\ (j = n \/ var[j + 1] = "\n")
         IN CASE it.op = "lit" ->
                   IF k < n /\ var[k + 1] = it.c
                   THEN MatchAt(Tail(items), var, k + 1, g) ELSE NoMatch
              [] it.op = "." ->
                   IF k < n /\ var[k + 1] # "\n"
                   THEN MatchAt(Tail(items), var, k + 1, g) ELSE NoMatch
              [] it.op = "(" -> MatchAt(Tail(items), var, k, k)
              [] it.op = "$" ->
                   IF k = n \/ (k = n - 1 /\ var[n] = "\n")
                   THEN MatchAt(Tail(items), var, k, g) ELSE NoMatch
              [] it.op = ".*" ->
                   FirstOf(Tail(items), var, [i \in 1..(reach - k + 1) |-> reach - i + 1], g)
              [] OTHER ->
                   FirstOf(Tail(items), var, [i \in 1..(reach - k + 1) |-> k + i - 1], g)
FirstOf(items, var, positions, g) ==
    IF positions = <<>> THEN NoMatch
    ELSE LET m == MatchAt(items, var, Head(positions), g)
         IN IF m.end >= 0 THEN m ELSE FirstOf(items, var, Tail(positions), g)

\* pattern.match(var), and pattern.search(var) of a pattern that begins with '^'
match(regex, var) == MatchAt(regex, var, 0, -1)

\* pattern.sub(repl, var, count) from position pos on, with at most left
\* replacements to go (count, or every match when count is 0): the leftmost
\* match is replaced; after an empty match the search moves on by one
\* character, after any other it resumes where the match ended, where an
\* empty match is found again
RECURSIVE sub(_, _, _, _, _)
sub(regex, repl, var, left, pos) ==
    LET n == Len(var)
        starts == {i \in pos..n : MatchAt(regex, var, i, -1).end >= 0}
    IN IF left = 0 \/ starts = {} THEN SubSeq(var, pos + 1, n)
       ELSE LET i == CHOOSE x \in starts : \A y \in starts : x <= y
                e == MatchAt(regex, var, i, -1).end
            IN SubSeq(var, pos + 1, i) \o repl
               \o (IF e > i THEN sub(regex, repl, var, left - 1, e)
                   ELSE IF i < n THEN <<var[i + 1]>> \o sub(regex, repl, var, left - 1, i + 1)
                   ELSE <<>>)


\* a parsed expansion: the named results of expansion_param; a result the
\* parser did not set is NoText
Expansion(varname, exptype, offset, length, pattern, string) ==
    [quote |-> Null, expansion |-> "$", varname |-> varname, exptype |-> exptype,
     offset |-> offset, length |-> length, pattern |-> pattern, string |-> string]
TextOr(t, default) == IF t = NoText THEN default ELSE t

\* combine_value on an expansion whose variable is defined (lines 122-156)
expand(tokens, var) ==
    LET exptype == tokens.exptype
    IN CASE exptype = Null -> var
         [] exptype = ":" ->
              IF tokens.offset = NoText THEN var
              ELSE LET offset == int(tokens.offset)
                   IN IF tokens.length = NoText THEN Slice(var, offset, Len(var))
                      ELSE LET length == int(tokens.length)
                           IN IF length >= 0 THEN Slice(var, offset, offset + length)
                              ELSE Slice(var, offset, length)
         [] exptype \in {"/", "//"} ->
              LET pattern == compile_pattern(TextOr(tokens.pattern, <<>>), TRUE, Null)
                  newstring == TextOr(tokens.string, <<>>)
              IN sub(pattern, newstring, var, IF exptype = "/" THEN 1 ELSE Len(var) + 1, 0)
         [] exptype \in {"#", "##"} ->
              LET m == match(compile_pattern(TextOr(tokens.pattern, <<>>),
                                             exptype = "##", "start"), var)
              IN IF m.end >= 0 THEN SubSeq(var, m.end + 1, Len(var)) ELSE var
         [] OTHER ->
              LET m == match(compile_pattern(TextOr(tokens.pattern, <<>>),
                                             exptype = "%%", "end"), var)
              IN IF m.end >= 0 THEN SubSeq(var, 1, m.start1) ELSE var

\* the values, offsets, lengths, patterns and replacements tried
ValueAlphabet == {"a", "b", "\n"}
PatternAlphabet == {"a", "b", "*", "?"}
Numbers == {<<"0">>, <<"1">>, <<"2">>, <<"3">>, <<"5">>,
            <<"-", "0">>, <<"-", "1">>, <<"-", "2">>, <<"-", "3">>, <<"-", "5">>}
ExpansionInputs ==
    {Expansion("s", ":", o, l, NoText, NoText) : o \in Numbers, l \in Numbers \cup {NoText}}
    \cup {Expansion("s", t, NoText, NoText, p, NoText) :
            t \in {"#", "##", "%", "%%"}, p \in Texts(PatternAlphabet, MaxPatLen) \cup {NoText}}
    \cup {Expansion("s", t, NoText, NoText, p, r) :
            t \in {"/", "//"}, p \in Texts(PatternAlphabet, MaxPatLen) \ {<<>>},
            r \in {NoText, <<>>, <<"z">>}}
    \cup {Expansion("s", t, NoText, NoText, NoText, NoText) : t \in {Null, "/", "//"}}

InitExp ==
    /\ InitRepo
    /\ call \in {[fn |-> "combine_value", tokens |-> e, var |-> v, done |-> FALSE, ret |-> <<>>] :
                    e \in ExpansionInputs, v \in Texts(ValueAlphabet, MaxValLen)}

\* combine_value(tokens, variables) with variables = {tokens.varname: var}
CombineValue ==
    /\ call.fn = "combine_value" /\ ~call.done
    /\ call' = [call EXCEPT !.done = TRUE, !.ret = expand(call.tokens, call.var)]
    /\ UNCHANGED <<revs, ldir, db, dbd, rel, basherr, reld, basherrd, run, log, obs>>

NextExp == CombineValue

SpecExp == InitExp /\ [][NextExp]_vars


(***************************************************************************)
(* bashvar.py: the grammar (lines 16-85).  A parser takes the source and   *)
(* the number of characters consumed so far and gives the number consumed  *)
(* after it, or -1 when it does not match; no parser skips whitespace      *)
(* (leaveWhitespace).                                                      *)
(***************************************************************************)
\* the backquote character (a string cannot hold it)
backtick == "BACKQUOTE"
alphas == lowercase \cup uppercase
alphanums == alphas \cup nums
At(src, loc) == IF loc >= 0 /\ loc < Len(src) THEN src[loc + 1] ELSE Null
Text(src, from, to) == SubSeq(src, from + 1, to)

\* the end of the longest run of characters in (Word body) or not in
\* (CharsNotIn) a set, from loc on
SpanIn(src, loc, set) ==
    CHOOSE j \in loc..Len(src) :
        /\ \A i \in (loc + 1)..j : src[i] \in set
        /\ (j = Len(src) \/ src[j + 1] \notin set)
SpanNotIn(src, loc, set) ==
    CHOOSE j \in loc..Len(src) :
        /\ \A i \in (loc + 1)..j : src[i] \notin set
        /\ (j = Len(src) \/ src[j + 1] \in set)

\* varname = Word(alphas + '_', alphanums + '_')
varname(src, loc) ==
    IF At(src, loc) \in alphas \cup {"_"} THEN SpanIn(src, loc, alphanums \cup {"_"}) ELSE -1

\* Word(nums), and integer = Word(nums) | Combine('-' + Word(nums))
digits(src, loc) == IF At(src, loc) \in nums THEN SpanIn(src, loc, nums) ELSE -1
integer(src, loc) ==
    IF At(src, loc) = "-" THEN digits(src, loc + 1) ELSE digits(src, loc)

\* the characters substsafe, the double-quoted text and texttoken leave out
substunsafe == {"/", "#", "%", "[", "}", "'", "\"", backtick, "\\"}
dqunsafe == {"$", backtick, "\\", "*", "\""}
textunsafe == {"~", "{", "}", "(", ")", "$", "'", "\"", backtick, "\\", "*", "?", "[", "]",
               " ", "\t", "\n"}

\* Optional(substsafe) from loc on
substsafe(src, loc) == SpanNotIn(src, loc, substunsafe)

\* no match of a parser that yields a token
Fail == [loc |-> -1]

\* the Optional(... ^ ... ^ ...) behind the name of a braced expansion
ParamOp(src, v) ==
    LET none == [loc |-> v, exptype |-> Null, offset |-> NoText, length |-> NoText,
                 pattern |-> NoText, string |-> NoText]
        c == At(src, v)
    IN CASE c = ":" ->
              LET w == SpanIn(src, v + 1, {" ", "\t"})
                  oe == IF At(src, v + 1) \in nums THEN digits(src, v + 1)
                        ELSE IF w > v + 1 /\ At(src, w) = "-" THEN digits(src, w + 1)
                        ELSE -1
                  offset == IF At(src, v + 1) \in nums THEN Text(src, v + 1, oe)
                            ELSE Text(src, w, oe)
                  le == IF At(src, oe) = ":" THEN integer(src, oe + 1) ELSE -1
              IN IF oe < 0 THEN none
                 ELSE IF le < 0 THEN [none EXCEPT !.loc = oe, !.exptype = ":", !.offset = offset]
                 ELSE [none EXCEPT !.loc = le, !.exptype = ":", !.offset = offset,
                                   !.length = Text(src, oe + 1, le)]
         [] c = "/" ->
              LET e == IF At(src, v + 1) = "/" THEN v + 2 ELSE v + 1
                  pe == substsafe(src, e)
                  se == substsafe(src, pe + 1)
                  r == [none EXCEPT !.loc = e, !.exptype = IF e = v + 2 THEN "//" ELSE "/"]
              IN IF pe = e THEN r
                 ELSE IF At(src, pe) # "/" THEN [r EXCEPT !.loc = pe, !.pattern = Text(src, e, pe)]
                 ELSE [r EXCEPT !.loc = se, !.pattern = Text(src, e, pe),
                                !.string = Text(src, pe + 1, se)]
         [] c \in {"#", "%"} ->
              LET e == IF At(src, v + 1) = c THEN v + 2 ELSE v + 1
                  pe == substsafe(src, e)
                  exptype == CASE e = v + 2 /\ c = "#" -> "##" [] e = v + 2 -> "%%"
                                  [] OTHER -> c
              IN [none EXCEPT !.loc = pe, !.exptype = exptype,
                              !.pattern = IF pe = e THEN NoText ELSE Text(src, e, pe)]
         [] OTHER -> none

\* expansion_param
expansion_param(src, loc) ==
    LET Braced(v, o) ==
            IF v < 0 \/ At(src, o.loc) # "}" THEN Fail
            ELSE [loc |-> o.loc + 1,
                  tok |-> Expansion(Text(src, loc + 2, v), o.exptype, o.offset, o.length,
                                    o.pattern, o.string)]
        Bare(v) ==
            IF v < 0 THEN Fail
            ELSE [loc |-> v,
                  tok |-> Expansion(Text(src, loc + 1, v), Null, NoText, NoText, NoText, NoText)]
    IN IF At(src, loc) # "$" THEN Fail
       ELSE IF At(src, loc + 1) = "{"
       THEN Braced(varname(src, loc + 2), ParamOp(src, varname(src, loc + 2)))
       ELSE Bare(varname(src, loc + 1))

\* a piece of text of a value, and the two quoted forms
Str(text) == [quote |-> Null, expansion |-> Null, value |-> text]
Quoted(q, value) == [quote |-> q, expansion |-> Null, value |-> value]

\* singlequote
singlequote(src, loc) ==
    LET e == SpanNotIn(src, loc + 1, {"'"})
    IN IF At(src, loc) = "'" /\ At(src, e) = "'"
       THEN [loc |-> e + 1, tok |-> Quoted("'", Text(src, loc + 1, e))]
       ELSE Fail

\* ZeroOrMore(doublequote_escape | expansion_param | CharsNotIn('$`\\*"'))
RECURSIVE DoubleQuoteItems(_, _)
DoubleQuoteItems(src, loc) ==
    LET Then(toks, r) == [loc |-> r.loc, value |-> toks \o r.value]
        Item(c, x, e) ==
            IF c = "\\" /\ At(src, loc + 1) \in {"$", backtick, "\"", "\\"}
            THEN Then(<<Str(<<At(src, loc + 1)>>)>>, DoubleQuoteItems(src, loc + 2))
            ELSE IF c = "\\" /\ At(src, loc + 1) = "\n"
            THEN Then(<<>>, DoubleQuoteItems(src, loc + 2))
            ELSE IF x.loc >= 0 THEN Then(<<x.tok>>, DoubleQuoteItems(src, x.loc))
            ELSE IF e > loc THEN Then(<<Str(Text(src, loc, e))>>, DoubleQuoteItems(src, e))
            ELSE [loc |-> loc, value |-> <<>>]
    IN Item(At(src, loc), expansion_param(src, loc), SpanNotIn(src, loc, dqunsafe))

\* doublequote
doublequote(src, loc) ==
    LET Close(r) ==
            IF At(src, loc) = "\"" /\ At(src, r.loc) = "\""
            THEN [loc |-> r.loc + 1, tok |-> Quoted("\"", r.value)]
            ELSE Fail
    IN Close(DoubleQuoteItems(src, loc + 1))

\* texttoken
texttoken(src, loc) ==
    LET c == At(src, loc)
        e == SpanNotIn(src, loc, textunsafe)
    IN CASE c = "'" -> singlequote(src, loc)
         [] c = "\"" -> doublequote(src, loc)
         [] c = "$" -> expansion_param(src, loc)
         [] OTHER -> IF e > loc THEN [loc |-> e, tok |-> Str(Text(src, loc, e))] ELSE Fail

\* varvalue = Group(ZeroOrMore(texttoken))
RECURSIVE varvalue(_, _)
varvalue(src, loc) ==
    LET Then(t, r) == [loc |-> r.loc, value |-> <<t.tok>> \o r.value]
        More(t) ==
            IF t.loc < 0 THEN [loc |-> loc, value |-> <<>>]
            ELSE Then(t, varvalue(src, t.loc))
    IN More(texttoken(src, loc))

\* line: optional blanks, an optional varassign, optional blanks, an
\* optional comment, lineEnd (a newline, or the end of the source, which
\* it passes by one)
line(src, loc) ==
    LET End(w1, v, has, val, c) ==
            IF loc > Len(src) \/ ~(c = Len(src) \/ At(src, c) = "\n") THEN Fail
            ELSE [loc |-> c + 1, has |-> has,
                  varname |-> IF has THEN Text(src, w1, v) ELSE <<>>,
                  varvalue |-> val.value]
        Comment(w1, v, has, val, w2) ==
            End(w1, v, has, val,
                IF At(src, w2) = "#" THEN SpanNotIn(src, w2 + 1, {"\n"}) ELSE w2)
        Value(w1, v, has, val) ==
            Comment(w1, v, has, val, SpanIn(src, val.loc, {" ", "\t"}))
        Assign(w1, v, has) ==
            Value(w1, v, has,
                  IF has THEN varvalue(src, v + 1) ELSE [loc |-> w1, value |-> <<>>])
        Name(w1, v) == Assign(w1, v, v >= 0 /\ At(src, v) = "=")
        Blank(w1) == Name(w1, varname(src, w1))
    IN Blank(SpanIn(src, loc, {" ", "\t"}))

\* bashvarfile.parseString(source, parseAll=True): the lines that hold an
\* assignment, or ParseException
RECURSIVE Lines(_, _)
Lines(src, loc) ==
    LET Then(l, r) ==
            [loc |-> r.loc, lines |-> (IF l.has THEN <<l>> ELSE <<>>) \o r.lines]
        More(l) ==
            IF l.loc < 0 THEN [loc |-> loc, lines |-> <<>>]
            ELSE Then(l, Lines(src, l.loc))
    IN More(line(src, loc))
ParseException == [exception |-> "ParseException"]
parseString(source) ==
    LET All(r) ==
            IF r.loc > Len(source)
               \/ SpanIn(source, r.loc, {" ", "\t", "\n", "\r"}) = Len(source)
            THEN [exception |-> Null, lines |-> r.lines]
            ELSE ParseException
    IN All(Lines(source, 0))


(***************************************************************************)
(* bashvar.py: evaluation (combine_value, eval_bashvar_literal,            *)
(* eval_bashvar_ext, eval_bashvar)                                         *)
(***************************************************************************)
\* a reference to a variable that is not defined, had it been left without
\* its VariableWarning
undefined_silent(name) == [val |-> <<>>, warned |-> <<>>]
\* the reference to a variable that is not defined: nothing, and a
\* VariableWarning (lines 157-158)
undefined(name) == [val |-> <<>>, warned |-> <<name>>]

\* combine_value: the value of a list of tokens and the names its
\* VariableWarnings are about
RECURSIVE combine_value(_, _)
combine_value(tokens, variables) ==
    LET Join(this, rest) ==
            [val |-> this.val \o rest.val, warned |-> this.warned \o rest.warned]
        One(tok) ==
            CASE tok.quote = "\"" -> combine_value(tok.value, variables)
              [] tok.quote = "'" -> [val |-> tok.value, warned |-> <<>>]
              [] tok.expansion = "$" ->
                   IF DictHas(variables, tok.varname)
                   THEN [val |-> expand(tok, DictGet(variables, tok.varname, <<>>)),
                         warned |-> <<>>]
                   ELSE undefined(tok.varname)
              [] OTHER -> [val |-> tok.value, warned |-> <<>>]
    IN IF tokens = <<>> THEN [val |-> <<>>, warned |-> <<>>]
       ELSE Join(One(Head(tokens)), combine_value(Tail(tokens), variables))

\* the loop of eval_bashvar_literal over the parsed lines
RECURSIVE EvalLines(_, _, _)
EvalLines(lines, variables, warned) ==
    LET Assign(r) ==
            EvalLines(Tail(lines), DictSet(variables, Head(lines).varname, r.val),
                      warned \o r.warned)
    IN IF lines = <<>> THEN [exception |-> Null, variables |-> variables, warned |-> warned]
       ELSE Assign(combine_value(Head(lines).varvalue, variables))

\* eval_bashvar_literal(source)
eval_bashvar_literal(source) ==
    LET Eval(parsed) ==
            IF parsed.exception # Null THEN ParseException
            ELSE EvalLines(parsed.lines, <<>>, <<>>)
    IN Eval(parseString(source))

\* source.splitlines(True) and str.splitlines(): the lines of a text, with
\* and without their newline
RECURSIVE splitlines(_, _)
splitlines(text, keepends) ==
    IF text = <<>> THEN <<>>
    ELSE LET e == SpanNotIn(text, 0, {"\n"})
         IN <<SubSeq(text, 1, IF keepends /\ e < Len(text) THEN e + 1 ELSE e)>>
            \o splitlines(SubSeq(text, e + 2, Len(text)), keepends)

\* re_variable.match(ln): the name, or NoText
re_variable(ln) ==
    LET w == SpanIn(ln, 0, {" ", "\t", "\n", "\r"})
        v == varname(ln, w)
    IN IF v >= 0 /\ At(ln, v) = "=" THEN Text(ln, w, v) ELSE NoText

\* the names eval_bashvar_ext asks bash for (lines 185-193)
ExtNames(source) ==
    LET lns == splitlines(source, TRUE)
    IN uniq(SelectSeq([i \in 1..Len(lns) |-> re_variable(lns[i])], LAMBDA n : n # NoText))

\* what bash does with a line of the source: the assignments it makes, each
\* of a name, plain or appending, to the text of its words; a word is a
\* piece of text or the value of a variable from an offset on
ShLit(text) == [text |-> text, ref |-> NoText, offset |-> 0]
ShRef(name, offset) == [text |-> <<>>, ref |-> name, offset |-> offset]
ShAssign(name, append, words) == [name |-> name, append |-> append, words |-> words]
RECURSIVE ShValue(_, _)
ShValue(words, env) ==
    IF words = <<>> THEN <<>>
    ELSE LET w == Head(words)
             v == DictGet(env, w.ref, <<>>)
         IN (IF w.ref = NoText THEN w.text
             ELSE SubSeq(v, w.offset + 1, Len(v))) \o ShValue(Tail(words), env)
RECURSIVE ShRun(_, _)
ShRun(stmts, env) ==
    IF stmts = <<>> THEN env
    ELSE LET st == Head(stmts)
             old == IF st.append THEN DictGet(env, st.name, <<>>) ELSE <<>>
         IN ShRun(Tail(stmts), DictSet(env, st.name, old \o ShValue(st.words, env)))

\* echo "${v//$'\n'/\\n}": every newline of the value written as a
\* backslash and an n; echo takes -n, -e, -E for options
RECURSIVE Replace(_, _, _)
Replace(text, old, new) ==
    IF Len(text) < Len(old) THEN text
    ELSE IF SubSeq(text, 1, Len(old)) = old
         THEN new \o Replace(SubSeq(text, Len(old) + 1, Len(text)), old, new)
    ELSE <<Head(text)>> \o Replace(Tail(text), old, new)
Echo(value) ==
    LET arg == Replace(value, <<"\n">>, <<"\\", "n">>)
        option == Len(arg) >= 2 /\ arg[1] = "-" /\ \A i \in 2..Len(arg) : arg[i] \in {"n", "e", "E"}
    IN IF ~option THEN arg \o <<"\n">>
       ELSE IF "n" \in Range(arg) THEN <<>> ELSE <<"\n">>
RECURSIVE EchoAll(_, _)
EchoAll(names, env) ==
    IF names = <<>> THEN <<>>
    ELSE Echo(DictGet(env, Head(names), <<>>)) \o EchoAll(Tail(names), env)

\* eval_bashvar_ext(source), bash having run the statements sh without
\* writing to its standard error (lines 194-208)
eval_bashvar_ext(source, sh) ==
    LET var == ExtNames(source)
        outs == EchoAll(var, ShRun(sh, <<>>))
        raw == splitlines(outs, FALSE)
        lines == [i \in 1..Len(raw) |-> Replace(raw[i], <<"\\", "n">>, <<"\n">>)]
        n == IF Len(var) < Len(lines) THEN Len(var) ELSE Len(lines)
    IN [exception |-> Null,
        variables |-> [i \in 1..n |-> KV(var[i], lines[i])],
        warned |-> <<>>,
        msgs |-> IF Len(var) # Len(lines) THEN <<"bash output not expected">> ELSE <<>>]

\* eval_bashvar without its except clause: the rejection leaves the function
eval_bashvar_unrouted(source, sh) ==
    LET Try(ret) ==
            IF ret.exception # Null
            THEN [exception |-> ret.exception, variables |-> <<>>, warned |-> <<>>,
                  msgs |-> <<>>]
            ELSE [exception |-> Null, variables |-> ret.variables, warned |-> ret.warned,
                  msgs |-> <<>>]
    IN Try(eval_bashvar_literal(source))
\* eval_bashvar(source): the mapping, the VariableWarnings logged and the
\* BashErrorWarnings collected
eval_bashvar(source, sh) ==
    LET Try(ret) ==
            IF ret.exception # Null THEN eval_bashvar_ext(source, sh)
            ELSE [exception |-> Null, variables |-> ret.variables, warned |-> ret.warned,
                  msgs |-> <<>>]
    IN Try(eval_bashvar_literal(source))

\* a line of a source file: its text, whether it holds a construct outside
\* the supported grammar, and what bash does with it (when shknown)
SourceLine(text, outside, shknown, sh) ==
    [text |-> text, outside |-> outside, shknown |-> shknown, sh |-> sh]
LineA1 == SourceLine(<<"a", "=", "1">>,
    FALSE, TRUE, <<ShAssign(<<"a">>, FALSE, <<ShLit(<<"1">>)>>)>>)
LineA2 == SourceLine(<<"a", "=", "2">>,
    FALSE, TRUE, <<ShAssign(<<"a">>, FALSE, <<ShLit(<<"2">>)>>)>>)
LineBRef == SourceLine(<<"b", "=", "x", "$", "a">>,
    FALSE, TRUE, <<ShAssign(<<"b">>, FALSE, <<ShLit(<<"x">>), ShRef(<<"a">>, 0)>>)>>)
LineBQuoted == SourceLine(<<"b", "=", "\"", "$", "{", "a", "}", "z", "\"">>,
    FALSE, TRUE, <<ShAssign(<<"b">>, FALSE, <<ShRef(<<"a">>, 0), ShLit(<<"z">>)>>)>>)
LineBFrom == SourceLine(<<"b", "=", "$", "{", "a", ":", "1", "}">>,
    FALSE, TRUE, <<ShAssign(<<"b">>, FALSE, <<ShRef(<<"a">>, 1)>>)>>)
LineBackslashN == SourceLine(<<"a", "=", "'", "x", "\\", "n", "y", "'">>,
    FALSE, TRUE, <<ShAssign(<<"a">>, FALSE, <<ShLit(<<"x", "\\", "n", "y">>)>>)>>)
LineNewline == SourceLine(<<"a", "=", "\"", "p", "\n", "q", "\"">>,
    FALSE, TRUE, <<ShAssign(<<"a">>, FALSE, <<ShLit(<<"p", "\n", "q">>)>>)>>)
LineDashN == SourceLine(<<"a", "=", "-", "n">>,
    FALSE, TRUE, <<ShAssign(<<"a">>, FALSE, <<ShLit(<<"-", "n">>)>>)>>)
LineComment == SourceLine(<<" ", "#", " ", "c">>,
    FALSE, TRUE, <<>>)
LineTwoSemi == SourceLine(<<"a", "=", "1", ";", "b", "=", "2">>,
    TRUE, TRUE, <<ShAssign(<<"a">>, FALSE, <<ShLit(<<"1">>)>>), ShAssign(<<"b">>, FALSE, <<ShLit(<<"2">>)>>)>>)
LineTwoBlank == SourceLine(<<"a", "=", "1", " ", "b", "=", "2">>,
    TRUE, TRUE, <<ShAssign(<<"a">>, FALSE, <<ShLit(<<"1">>)>>), ShAssign(<<"b">>, FALSE, <<ShLit(<<"2">>)>>)>>)
LineAppend == SourceLine(<<"a", "+", "=", "1">>,
    TRUE, TRUE, <<ShAssign(<<"a">>, TRUE, <<ShLit(<<"1">>)>>)>>)
LineCommand == SourceLine(<<"a", "=", "$", "(", "c", ")">>,
    TRUE, FALSE, <<>>)
LineBackticks == SourceLine(<<"a", "=", backtick, "c", backtick>>,
    TRUE, FALSE, <<>>)
LineArith == SourceLine(<<"a", "=", "$", "(", "(", "1", "+", "1", ")", ")">>,
    TRUE, FALSE, <<>>)
LineProcess == SourceLine(<<"a", "=", "<", "(", "c", ")">>,
    TRUE, FALSE, <<>>)
LineTilde == SourceLine(<<"a", "=", "~">>,
    TRUE, FALSE, <<>>)
LineBrace == SourceLine(<<"a", "=", "{", "x", ",", "y", "}">>,
    TRUE, FALSE, <<>>)
LineGlob == SourceLine(<<"a", "=", "x", "*">>,
    TRUE, FALSE, <<>>)
LineSpaces == SourceLine(<<"a", " ", "=", " ", "1">>,
    TRUE, FALSE, <<>>)
LineDefault == SourceLine(<<"a", "=", "$", "{", "b", ":", "-", "w", "}">>,
    TRUE, FALSE, <<>>)
LineIndirect == SourceLine(<<"a", "=", "$", "{", "!", "b", "}">>,
    TRUE, FALSE, <<>>)
LineLength == SourceLine(<<"a", "=", "$", "{", "#", "b", "}">>,
    TRUE, FALSE, <<>>)
LineUpper == SourceLine(<<"a", "=", "$", "{", "b", "^", "^", "}">>,
    TRUE, FALSE, <<>>)
LineSlashPattern == SourceLine(<<"a", "=", "$", "{", "b", "/", "/", "/", "x", "}">>,
    TRUE, FALSE, <<>>)
LineHashPattern == SourceLine(<<"a", "=", "$", "{", "b", "/", "#", "x", "/", "y", "}">>,
    TRUE, FALSE, <<>>)
LineBackslashPattern == SourceLine(<<"a", "=", "$", "{", "b", "/", "\\", "x", "/", "y", "}">>,
    TRUE, FALSE, <<>>)
SourceLines ==
    {LineA1, LineA2, LineBRef, LineBQuoted, LineBFrom, LineBackslashN,
     LineNewline, LineDashN, LineComment, LineTwoSemi, LineTwoBlank,
     LineAppend, LineCommand, LineBackticks, LineArith, LineProcess,
     LineTilde, LineBrace, LineGlob, LineSpaces, LineDefault,
     LineIndirect, LineLength, LineUpper, LineSlashPattern,
     LineHashPattern, LineBackslashPattern}

\* the files of one to MaxLines lines
RECURSIVE Fragments(_)
Fragments(n) ==
    IF n = 0 THEN {<<>>}
    ELSE LET shorter == Fragments(n - 1)
         IN shorter \cup {Append(f, l) : f \in {x \in shorter : Len(x) = n - 1},
                                         l \in SourceLines}
RECURSIVE SourceOf(_)
SourceOf(frag) ==
    IF frag = <<>> THEN <<>>
    ELSE IF Len(frag) = 1 THEN frag[1].text
    ELSE frag[1].text \o <<"\n">> \o SourceOf(Tail(frag))
RECURSIVE ShOf(_)
ShOf(frag) == IF frag = <<>> THEN <<>> ELSE Head(frag).sh \o ShOf(Tail(frag))
ShKnown(frag) == \A i \in 1..Len(frag) : frag[i].shknown

Pending == [done |-> FALSE]
Done(result) == [done |-> TRUE, result |-> result]

InitEval ==
    /\ InitRepo
    /\ call \in {[fn |-> "eval_bashvar", frag |-> f, source |-> SourceOf(f),
                  literal |-> Pending, ext |-> Pending, both |-> Pending] :
                    f \in Fragments(MaxLines) \ {<<>>}}

\* eval_bashvar_literal(source)
EvalLiteral ==
    /\ call.fn = "eval_bashvar" /\ ~call.literal.done
    /\ call' = [call EXCEPT !.literal = Done(eval_bashvar_literal(call.source))]
    /\ UNCHANGED <<revs, ldir, db, dbd, rel, basherr, reld, basherrd, run, log, obs>>

\* eval_bashvar_ext(source)
EvalExt ==
    /\ call.fn = "eval_bashvar" /\ ~call.ext.done /\ ShKnown(call.frag)
    /\ call' = [call EXCEPT !.ext = Done(eval_bashvar_ext(call.source, ShOf(call.frag)))]
    /\ UNCHANGED <<revs, ldir, db, dbd, rel, basherr, reld, basherrd, run, log, obs>>

\* eval_bashvar(source)
EvalBashvar ==
    /\ call.fn = "eval_bashvar" /\ ~call.both.done
    /\ ShKnown(call.frag) \/ eval_bashvar_literal(call.source).exception = Null
    /\ call' = [call EXCEPT !.both = Done(eval_bashvar(call.source, ShOf(call.frag)))]
    /\ UNCHANGED <<revs, ldir, db, dbd, rel, basherr, reld, basherrd, run, log, obs>>

NextEval ==
    \/ EvalLiteral
    \/ EvalExt
    \/ EvalBashvar

SpecEval == InitEval /\ [][NextEval]_vars


(***************************************************************************)
(* Claims                                                                  *)
(***************************************************************************)

\* C1: idempotence of reconciliation. When a run (repo_update over the
\* history, or the local scan over the directory) completes and the previous
\* run of the same tree also completed with no change of the input between
\* them, the catalog (packages, package_versions, package_spec,
\* package_dependencies, package_duplicate) after the second run is the
\* catalog before it.
C1_Idempotent ==
    (obs.last \in {"branch", "ladd"} /\ obs.rerun) => db = obs.base

\* C2: abort atomicity. When repo_update is stopped inside a revision (after
\* scan_abbs_tree began it and before its cleanup ended) and update() has
\* closed the connection, the durable catalog is the catalog as of the last
\* fully reconciled revision and the durable marker store is the marker store
\* as of that revision.
C2_AbortAtomic ==
    (obs.last = "interrupt" /\ obs.inrev) =>
        (dbd = obs.full.db /\ reld = obs.full.rel)

\* C3: crash consistency between catalog and marker. At every point of
\* repo_update the durable marker store names no revision whose catalog
\* writes are not durably committed.
C3_MarkerOnlyIfDurable ==
    \A x \in reld : x.rid \notin obs.unc

\* C4: processed revisions are skipped on replay. A revision for which
\* scan_abbs_tree ran to completion and reconciled at least one package group,
\* whatever its commit message, is never reconciled again by a later call:
\* the later call returns at the marker check.
C4_ProcessedSkipped ==
    ~obs.rescan

\* C5: removal of a disappeared group. At the end of the pass that observes
\* the deletion of a package-group directory (the end of scan_abbs_tree for
\* the deleting revision, or of the local scan), every package that was
\* recorded at that location has no packages, package_spec or
\* package_dependencies row left, and the log holds exactly one
\* 'removed: <name>' line for it.
C5_RemovedGroup ==
    obs.last \in {"sweep", "ladd"} =>
        \A n \in obs.gone :
            /\ ~\E r \in db.packages : r.name = n
            /\ ~\E r \in db.package_spec : r.package = n
            /\ ~\E r \in db.package_dependencies : r.package = n
            /\ Cardinality({i \in DOMAIN log : log[i] = Removed(n)}) = 1

\* the package names a tree declares at a location of a content tree
DeclaredAt(self, tree, loc) ==
    LET pkgs == read_package_info(self, tree[loc], loc)
    IN {pkgs[i].name : i \in 1..Len(pkgs)}

\* C6: cross-tree name collision. When a run of the source tree reconciled a
\* package whose name had a packages row owned by another tree, then after the
\* whole run (the closing branch update included) the packages,
\* package_versions, package_spec and package_dependencies rows of that name
\* are exactly the rows it had before, and, the new location still declaring
\* the name, package_duplicate holds both the existing and the new location.
C6_CrossTreeCollision ==
    obs.last = "branch" =>
        \A s \in obs.xt :
            /\ RowsOf(db, s.rows.name) = s.rows
            /\ (\A b \in BranchSet : s.rows.name \in DeclaredAt(SrcTree, HeadTree(b), s.loc))
                => \A r \in s.rows.packages :
                     {DupRow(r.name, r.tree, OrEmpty(r.category), r.section, r.directory),
                      DupRow(r.name, SrcTree, OrEmpty(CategoryOf(s.loc.secpath)),
                             SectionOf(s.loc.secpath), s.loc.directory)}
                        \subseteq db.package_duplicate

\* the tracked branches on which exactly the group at loc declares the name
OnlyAt(name, loc) ==
    /\ \A b \in BranchSet, l \in Locs :
          name \in DeclaredAt(SrcTree, HeadTree(b), l) => l = loc
    /\ \E b \in BranchSet : name \in DeclaredAt(SrcTree, HeadTree(b), loc)

\* C7: intra-tree name collision. After a complete run of the source tree
\* over a history at whose end only one location still declares a name, the
\* packages row of that name points at that location.
C7_ConvergesToDeclaring ==
    (obs.last = "branch" /\ obs.n = 1) =>
        \A r \in db.packages : \A l \in Locs :
            (r.tree = SrcTree /\ OnlyAt(r.name, l)) => AtLoc(r, SrcTree, l)

\* the locations of the content tree at which a name is declared
DeclaringLocs(name, tree) == {l \in Locs : name \in DeclaredAt(SrcTree, tree, l)}

\* C8: catalog invariant on duplicates. After every completed pass of
\* scan_abbs_tree over a revision, each name has at most one packages row,
\* and a name of this tree that the revision declares at two or more
\* locations has a package_duplicate row for every declaring location other
\* than the authoritative one.
C8_DuplicatesRecorded ==
    (obs.last = "sweep" /\ obs.n = 1) =>
        /\ \A r1, r2 \in db.packages : r1.name = r2.name => r1 = r2
        /\ \A r \in db.packages :
              LET decl == DeclaringLocs(r.name, Rev(run.mid).tree)
              IN (r.tree = SrcTree /\ Cardinality(decl) >= 2) =>
                    \A l \in decl :
                        AtLoc(r, SrcTree, l) \/
                        \E x \in db.package_duplicate : x.package = r.name /\ DupAtLoc(x, SrcTree, l)

\* the package_spec and package_dependencies rows of a name
SpecOf(d, name) == {x \in d.package_spec : x.package = name}
DepsOf(d, name) == {x \in d.package_dependencies : x.package = name}

\* first half of C9: after update_package wrote the packages of a group for
\* branches containing the main branch, the package_spec rows of each are
\* exactly the key/value pairs of the definition just read
C9_SpecReplaced ==
    (obs.last = "add" /\ MainBranch \in Rev(run.mid).brs) =>
        \A i \in 1..Len(obs.read) :
            SpecOf(db, obs.read[i].name) = SpecRows(obs.read[i])

\* second half of C9: reconciling a group on a revision that is not on the
\* main branch leaves the package_spec and package_dependencies rows of its
\* packages as they were before the group was reconciled
C9_OffMainUnchanged ==
    (obs.last = "add" /\ MainBranch \notin Rev(run.mid).brs) =>
        \A i \in 1..Len(obs.read) :
            /\ SpecOf(db, obs.read[i].name) = SpecOf(obs.pre, obs.read[i].name)
            /\ DepsOf(db, obs.read[i].name) = DepsOf(obs.pre, obs.read[i].name)

\* C9: spec rows are replaced, never merged: both halves, the rows written
\* for the main branch are exactly the definition just reconciled and a
\* reconciliation off the main branch leaves the spec and dependency rows
\* unchanged.
C9_SpecRows ==
    C9_SpecReplaced /\ C9_OffMainUnchanged

\* the PKGNAME values the defines files of a group content give
DeclaredNames(content) ==
    {DictGet(content.defines[i].vars, Key("PKGNAME"), Null) :
        i \in {j \in 1..Len(content.defines) :
                 Truthy(DictGet(content.defines[j].vars, Key("PKGNAME"), Null))}}

\* C10: a defines file without PKGNAME is not a package. When a group has been
\* read and reconciled, read_package_info returned one Package per defines
\* file that gives a non-empty PKGNAME and none for the others, and every
\* packages row of the group's location bears a name a defines file gives.
C10_NoNameNoPackage ==
    (obs.last = "add" /\ obs.read # <<>>) =>
        LET loc == Loc(obs.read[1].secpath, obs.read[1].directory)
            content == Rev(run.mid).tree[loc]
            named == {j \in 1..Len(content.defines) :
                        Truthy(DictGet(content.defines[j].vars, Key("PKGNAME"), Null))}
        IN /\ Len(obs.read) = Cardinality(named)
           /\ \A r \in db.packages :
                 AtLoc(r, SrcTree, loc) => r.name \in DeclaredNames(content)

\* the tokens the specification admits, name[relop version]: a name, or a
\* name followed by an operator and a version
TokenName(tok) ==
    LET ends == {i \in 1..Len(tok) : \A j \in 1..i : tok[j] \in PkgNameChars}
    IN IF ends = {} \/ tok = <<>> THEN <<>>
       ELSE SubSeq(tok, 1, CHOOSE i \in ends : \A l \in ends : l <= i)
TokenForm(tok) ==
    LET i == Len(TokenName(tok))
    IN /\ i >= 1 /\ tok[1] \in PkgNameFirst
       /\ \/ i = Len(tok)
          \/ /\ i + 2 <= Len(tok) /\ tok[i + 1] \in RelOpFirst /\ tok[i + 2] = "="
             /\ \A j \in (i + 3)..Len(tok) : tok[j] \in DepVerChars
TokenTuple(N, tok, arch, K) ==
    LET i == Len(TokenName(tok))
    IN [package |-> N, dependency |-> TokenName(tok),
        relop |-> IF i = Len(tok) THEN Null ELSE RelOp(tok[i + 1]),
        version |-> IF i + 2 < Len(tok) THEN SubSeq(tok, i + 3, Len(tok)) ELSE NoText,
        architecture |-> arch, relationship |-> K]

\* the tuples of the tokens of one value, and of the keys of a file, in order
RECURSIVE ValueTuples(_, _, _, _)
ValueTuples(N, toks, arch, K) ==
    IF toks = <<>> THEN <<>>
    ELSE (IF TokenForm(Head(toks)) THEN <<TokenTuple(N, Head(toks), arch, K)>> ELSE <<>>)
         \o ValueTuples(N, Tail(toks), arch, K)
RECURSIVE FileTuples(_, _)
FileTuples(N, items) ==
    IF items = <<>> THEN <<>>
    ELSE (IF Head(items).k.b \in relvars
          THEN ValueTuples(N, Split(Head(items).v), Lower(Head(items).k.a), Head(items).k.b)
          ELSE <<>>)
         \o FileTuples(N, Tail(items))

\* a list without its repeated elements, each kept where it is first seen
RECURSIVE FirstSeen(_)
FirstSeen(seq) ==
    IF seq = <<>> THEN <<>>
    ELSE <<Head(seq)>> \o FirstSeen(SelectSeq(Tail(seq), LAMBDA x : x # Head(seq)))

\* C11: for a package named N, load_defines yields as dependencies the
\* tuples (N, name, relop or null, version or null, lower-cased arch or '',
\* K) of the tokens of the form name[relop version], taken key by key in
\* file order and token by token, with exact duplicates removed and the
\* first-seen order kept.
C11_DependencyList ==
    (call.fn = "load_defines" /\ call.done)
    => call.ret.dependencies = FirstSeen(FileTuples(call.ret.name, Tail(call.result)))

\* bash's ${s:offset} and ${s:offset:length}: the characters of s from
\* position first on, up to position last
BashSubstring(s, offset, haslength, length) ==
    LET n == Len(s)
        first == IF offset >= 0 THEN offset ELSE n + offset
        last == IF ~haslength THEN n
                ELSE IF length >= 0 THEN first + length
                ELSE n + length
    IN IF first < 0 \/ first > n \/ last <= first THEN <<>>
       ELSE SubSeq(s, first + 1, IF last > n THEN n ELSE last)

\* C14: ${s:offset} and ${s:offset:length} evaluate to bash's result for
\* every string and all offsets and lengths the grammar accepts: a negative
\* offset counts from the end, a non-negative length takes that many
\* characters from the offset (also when the offset is negative and offset
\* + length reaches or passes the end), a negative length is an end
\* position counted from the end, an empty range gives the empty string.
C14_SubstringAsBash ==
    (call.fn = "combine_value" /\ call.done /\ call.tokens.exptype = ":")
    => call.ret = BashSubstring(call.var, int(call.tokens.offset),
                                call.tokens.length # NoText,
                                int(TextOr(call.tokens.length, <<>>)))

\* the shell's pattern matching: t as a whole matches p, where '*' stands
\* for any text and '?' for any one character
RECURSIVE GlobMatch(_, _)
GlobMatch(p, t) ==
    IF p = <<>> THEN t = <<>>
    ELSE IF Head(p) = "*"
         THEN \E k \in 0..Len(t) : GlobMatch(Tail(p), SubSeq(t, k + 1, Len(t)))
    ELSE /\ t # <<>>
         /\ (Head(p) = "?" \/ Head(p) = Head(t))
         /\ GlobMatch(Tail(p), Tail(t))

\* the lengths of the prefixes and of the suffixes of s that match p
PrefixLens(s, p) == {k \in 0..Len(s) : GlobMatch(p, SubSeq(s, 1, k))}
SuffixLens(s, p) == {k \in 0..Len(s) : GlobMatch(p, SubSeq(s, Len(s) - k + 1, Len(s)))}
Least(S) == CHOOSE x \in S : \A y \in S : x <= y
Greatest(S) == CHOOSE x \in S : \A y \in S : y <= x

BashTrim(s, exptype, p) ==
    LET n == Len(s)
        lens == IF exptype \in {"#", "##"} THEN PrefixLens(s, p) ELSE SuffixLens(s, p)
        k == IF exptype \in {"#", "%"} THEN Least(lens) ELSE Greatest(lens)
    IN IF lens = {} THEN s
       ELSE IF exptype \in {"#", "##"} THEN SubSeq(s, k + 1, n)
       ELSE SubSeq(s, 1, n - k)

\* C15: ${s#p} removes the shortest prefix of s matching p and ${s##p} the
\* longest, ${s%p} the shortest suffix and ${s%%p} the longest, for every
\* value s and every pattern p of literal characters, '*' and '?'; s comes
\* back unchanged when no prefix (suffix) matches.
C15_PatternTrim ==
    (call.fn = "combine_value" /\ call.done
        /\ call.tokens.exptype \in {"#", "##", "%", "%%"})
    => call.ret = BashTrim(call.var, call.tokens.exptype, TextOr(call.tokens.pattern, <<>>))

\* ${s/p/r} and ${s//p/r}: from position pos on, the leftmost and there
\* longest match of p is replaced by r, and with every set the search goes
\* on behind the match; an empty pattern matches nothing
RECURSIVE BashSubst(_, _, _, _, _)
BashSubst(s, p, r, every, pos) ==
    LET n == Len(s)
        Ends(i) == {j \in i..n : GlobMatch(p, SubSeq(s, i + 1, j))}
        min == IF n = 0 THEN 0 ELSE 1
        starts == {i \in pos..n : \E j \in Ends(i) : j - i >= min}
    IN IF p = <<>> \/ starts = {} THEN SubSeq(s, pos + 1, n)
       ELSE LET i == Least(starts)
                j == Greatest(Ends(i))
            IN SubSeq(s, pos + 1, i) \o r
               \o (IF every /\ j < n THEN BashSubst(s, p, r, every, j)
                   ELSE SubSeq(s, j + 1, n))

\* C16: ${s/p/r} replaces only the first (leftmost, longest) match of p in
\* s by r and ${s//p/r} every non-overlapping match, each exactly once; an
\* omitted replacement deletes the match, an empty pattern leaves s as it
\* is.
C16_PatternSubst ==
    (call.fn = "combine_value" /\ call.done /\ call.tokens.exptype \in {"/", "//"})
    => call.ret = BashSubst(call.var, TextOr(call.tokens.pattern, <<>>),
                            TextOr(call.tokens.string, <<>>),
                            call.tokens.exptype = "//", 0)

\* C12: every fragment that holds a construct outside the supported grammar
\* makes eval_bashvar_literal raise ParseException, whatever its other lines
\* are.
C12_RejectionTotal ==
    (call.fn = "eval_bashvar" /\ call.literal.done
        /\ \E i \in 1..Len(call.frag) : call.frag[i].outside)
    => call.literal.result.exception = "ParseException"

\* C13: for every fragment eval_bashvar_literal accepts, eval_bashvar_ext
\* returns the same ordered mapping, values holding newlines or a backslash
\* followed by 'n' included.
C13_Confluence ==
    (call.fn = "eval_bashvar" /\ call.literal.done /\ call.ext.done
        /\ call.literal.result.exception = Null)
    => call.ext.result.variables = call.literal.result.variables

\* the lines before an append, and the mapping bash holds after the fragment
PlainLines == {LineA1, LineA2, LineBRef, LineComment}
AppendFragment(frag) ==
    /\ frag[Len(frag)] = LineAppend
    /\ \A i \in 1..(Len(frag) - 1) : frag[i] \in PlainLines

\* C17: evaluated with eval_bashvar, a line name+=value appends value to
\* the current value of name; when name is not yet defined the mapping
\* holds name with the value a plain assignment would give and an
\* undefined-variable diagnostic is raised.
C17_AppendAssignment ==
    (call.fn = "eval_bashvar" /\ call.both.done /\ AppendFragment(call.frag))
    => LET r == call.both.result
           sh == ShRun(ShOf(call.frag), <<>>)
           defined == \E i \in 1..(Len(call.frag) - 1) : call.frag[i] \in {LineA1, LineA2}
       IN /\ DictGet(r.variables, <<"a">>, NoText) = DictGet(sh, <<"a">>, NoText)
          /\ (~defined => (<<"a">> \in Range(r.warned) \/ r.msgs # <<>>))

\* the names a file refers to before any of its lines has assigned them, in
\* the order of the references
RECURSIVE UnsetRefs(_, _)
UnsetRefs(stmts, assigned) ==
    IF stmts = <<>> THEN <<>>
    ELSE LET st == Head(stmts)
             refs == SelectSeq(st.words, LAMBDA w : w.ref # NoText /\ w.ref \notin assigned)
         IN [i \in 1..Len(refs) |-> refs[i].ref]
            \o UnsetRefs(Tail(stmts), assigned \cup {st.name})

\* C18: evaluation order and undefined references. For a file of supported
\* lines, eval_bashvar_literal does not abort and returns the mapping that
\* reading the assignments from top to bottom gives: a reference (bare, in
\* braces, with an offset, in double quotes) to a name that an earlier line
\* assigned has the value of the last such assignment, a reference to a
\* name no earlier line assigned is the empty text, also when a later line
\* assigns it, and a VariableWarning is raised for each such reference and
\* for no other.
C18_EvaluationOrder ==
    (call.fn = "eval_bashvar" /\ call.literal.done
        /\ \A i \in 1..Len(call.frag) : ~call.frag[i].outside /\ call.frag[i] # LineAppend)
    => /\ call.literal.result.exception = Null
       /\ call.literal.result.variables = ShRun(ShOf(call.frag), <<>>)
       /\ call.literal.result.warned = UnsetRefs(ShOf(call.frag), {})

\* C18 happens: b=x$a, a=1, b="${a}z" has been evaluated; the first line
\* met a undefined (one warning), the third saw the 1 of the second
C18_Witness ==
    /\ call.fn = "eval_bashvar" /\ call.literal.done
    /\ call.frag = <<LineBRef, LineA1, LineBQuoted>>
    /\ call.literal.result.exception = Null
    /\ call.literal.result.warned = << <<"a">> >>
    /\ DictGet(call.literal.result.variables, <<"b">>, NoText) = <<"1", "z">>

\* the key and the version, release and epoch of a package_versions row
VersionOf(x) ==
    [package |-> x.package, branch |-> x.branch, architecture |-> x.architecture,
     version |-> x.version, release |-> x.release, epoch |-> x.epoch]
\* the component an architecture override gives, the default without one
Given(override, default) == IF override # Null THEN override ELSE default
\* the version rows a package definition stands for on one branch
DefinedVersions(pkg, b) ==
    {[package |-> pkg.name, branch |-> b, architecture |-> "",
      version |-> pkg.version, release |-> pkg.release, epoch |-> pkg.epoch]}
    \cup {[package |-> pkg.name, branch |-> b, architecture |-> a,
           version |-> Given(pkg.vermask_arch[a].version, pkg.version),
           release |-> Given(pkg.vermask_arch[a].release, pkg.release),
           epoch |-> Given(pkg.vermask_arch[a].epoch, pkg.epoch)]
          : a \in DOMAIN pkg.vermask_arch}

\* C19: version rows written for a package. When scan_abbs_tree has
\* reconciled a present group, every package P it wrote has, on every
\* branch b of the revision, exactly the rows its definition stands for: one
\* row (P, b, '') with the default version, release and epoch, one row
\* (P, b, a) for every architecture a with an override, holding the
\* override's components where given and the defaults otherwise, and no row
\* (P, b, a') for any other architecture.
C19_VersionRows ==
    (obs.last = "add" /\ run.pc \in {"rm", "sweep"})
    => \A i \in 1..Len(obs.read) : \A b \in Range(branches_of_commit(run.mid)) :
          {VersionOf(x) : x \in {y \in db.package_versions :
                                   y.package = obs.read[i].name /\ y.branch = b}}
          = DefinedVersions(obs.read[i], b)

\* C20: chronological processing. Over the runs of repo_update, when
\* scan_abbs_tree begins to reconcile a revision, no revision reconciled
\* before it (in this run or an earlier one) has a later timestamp.
C20_Chronological ==
    obs.last = "begin" => \A r \in obs.done : Rev(r).mtime <= Rev(run.mid).mtime

\* the content a recorded duplicate location has now: in the revision being
\* reconciled for the source tree, on disk for the local tree
DuplicateContent(x) ==
    LET l == Loc(SecPathJoin(x.category, x.section), x.directory)
    IN IF x.tree = SrcTree THEN Rev(run.mid).tree[l] ELSE ldir[l].content
\* the names with a duplicate row and no packages row that a recorded
\* duplicate location still declares in a regular spec
Recoverable(d) ==
    {x.package : x \in {y \in d.package_duplicate :
        /\ ~\E r \in d.packages : r.name = y.package
        /\ DuplicateContent(y).spec = "file"
        /\ y.package \in DeclaredNames(DuplicateContent(y))}}

\* C21: recovery sweep. The closing sweep of scan_abbs_tree gives a packages
\* row back to every name that had a duplicate row and no packages row and
\* that a recorded duplicate location, of any tree, still declares in a
\* readable regular spec.
C21_RecoverySweep ==
    [][(run.pc = "sweep" /\ obs'.last = "sweep")
        => \A n \in Recoverable(db) : \E r \in db'.packages : r.name = n]_vars

\* C22: resolved collisions are cleaned up. When a scan_abbs_tree, of a
\* revision or of the local directory, has run to its end, no package name
\* has exactly one row in package_duplicate: every name in the table is
\* recorded with at least two distinct locations.
C22_NoSingleDuplicate ==
    obs.last \in {"sweep", "ladd"}
    => \A x \in db.package_duplicate :
          Cardinality({y \in db.package_duplicate : y.package = x.package}) >= 2

\* C22 happens: a scan has run to its end with a collision still recorded
C22_Witness ==
    /\ obs.last \in {"sweep", "ladd"}
    /\ db.package_duplicate # {}

\* the duplicate rows of one package name
DupsOf(d, name) == {x \in d.package_duplicate : x.package = name}
\* the version rows of one package name
VersionsOf(d, name) == {x \in d.package_versions : x.package = name}

\* C23, versions: when the removal of a group by a revision on branches B
\* has been reconciled, each package recorded at the location has lost
\* exactly its version rows of the branches in B.
AbsentVersions(name) ==
    VersionsOf(db, name)
        = {x \in VersionsOf(obs.pre, name) : x.branch \notin Rev(run.mid).brs}
\* C23, the rest: its packages, spec and dependency rows are gone if no
\* version row of it is left and untouched otherwise
AbsentRows(name) ==
    LET kept == IF VersionsOf(db, name) = {} THEN EmptyDb ELSE obs.pre
    IN /\ {r \in db.packages : r.name = name} = {r \in kept.packages : r.name = name}
       /\ SpecOf(db, name) = SpecOf(kept, name)
       /\ DepsOf(db, name) = DepsOf(kept, name)
\* C23, duplicates: and so are its duplicate rows
AbsentDuplicates(name) ==
    DupsOf(db, name) = IF VersionsOf(db, name) = {} THEN {} ELSE DupsOf(obs.pre, name)

\* C23: the Absent step is per branch. When scan_abbs_tree has done the
\* removal half for a group that a revision on branches B removed, every
\* package recorded at that location has lost exactly its version rows of
\* the branches in B, the version rows of other branches are unchanged, and
\* its packages row, spec rows, dependency rows and duplicate rows are
\* deleted if and only if no version row of it is left on any branch.
C23_AbsentPerBranch ==
    (obs.last = "rm" /\ Head(run.groups).change = "-")
    => \A name \in RecordedAt(obs.pre, SrcTree, Head(run.groups).loc) :
          AbsentVersions(name) /\ AbsentRows(name) /\ AbsentDuplicates(name)

\* C23 as the code has it: the Absent step is per branch for the version
\* rows, the packages, spec and dependency rows go if and only if no
\* version row is left, and of the duplicate rows of the package exactly
\* those of this tree at the removed location go, in either case; its
\* duplicate rows of other locations stay.
C23_AbsentPerBranchLocation ==
    (obs.last = "rm" /\ Head(run.groups).change = "-")
    => \A name \in RecordedAt(obs.pre, SrcTree, Head(run.groups).loc) :
          /\ AbsentVersions(name) /\ AbsentRows(name)
          /\ DupsOf(db, name) = {x \in DupsOf(obs.pre, name) :
                                   ~DupAtLoc(x, SrcTree, Head(run.groups).loc)}

\* C23 happens: a group was removed on one branch and a package recorded
\* there keeps its version rows of another branch, and its packages row
C23_Witness ==
    /\ obs.last = "rm" /\ Head(run.groups).change = "-"
    /\ \E name \in RecordedAt(obs.pre, SrcTree, Head(run.groups).loc) :
          /\ VersionsOf(db, name) # {}
          /\ VersionsOf(db, name) # VersionsOf(obs.pre, name)
          /\ \E r \in db.packages : r.name = name

\* trees.tid of the two trees (init_db: self.priority, option -P); neither
\* update_package nor any statement of the scans reads it
priority(tree) == IF tree = SrcTree THEN 1 ELSE 0
Outranks(a, b) == priority(a) > priority(b)

\* the tree declares the name now: the head revision of the main branch for
\* the source tree, the directory for the local tree
TreeDeclares(tree, name) ==
    \E l \in Locs :
        LET c == IF tree = SrcTree THEN HeadTree(MainBranch)[l] ELSE ldir[l].content
        IN c.spec = "file" /\ name \in DeclaredNames(c)

\* both trees met the name in update_package: each has a duplicate row of it
BothReconciled(name) ==
    \A t \in {SrcTree, LocTree} :
        \E x \in db.package_duplicate : x.package = name /\ x.tree = t

\* C24: when the source and the local tree, of different priorities, both
\* declare a name and both have been reconciled, in either order, the
\* packages row of the name belongs to the tree ranked higher.
C24_AuthorityByPriority ==
    (Idle /\ obs.settled # "none")
    => \A r \in db.packages :
          (/\ TreeDeclares(SrcTree, r.name) /\ TreeDeclares(LocTree, r.name)
           /\ BothReconciled(r.name))
          => \A t \in {SrcTree, LocTree} : ~Outranks(t, r.tree)

(***************************************************************************)
(* SourceRepo.list_update on the file changes of one revision              *)
(***************************************************************************)
MaxDiff == 2

\* the first segment denotes a category the system recognizes
Recognized(secpath) == CategoryOf(secpath) # Null
\* first path segments: a category-section, a reserved name, another directory
ScanFirst == {"extra-a", "groups", "misc"}
ScanLocs == {Loc(f, "p") : f \in ScanFirst} \cup {Loc("extra-a", "q")}
\* file_list(mid): what the revision holds at <secpath>/<directory>/spec
ScanTrees ==
    {t \in [ScanLocs -> {Group(k, <<>>, <<>>) : k \in {"file", "link", "none"}}] :
        \A l \in ScanLocs : t[l].spec = "link" => Recognized(l.secpath)}
\* names of changed files, split at the first two '/'
ScanPaths ==
    {<<"README">>, <<"extra-a", "p">>}
        \cup {<<l.secpath, l.directory, f>> :
                 l \in ScanLocs, f \in {"spec", "autobuild/defines"}}

\* a row of mlink agrees with the file list of the revision: an added or
\* changed spec is in it (mperm 2 for a symlink), a deleted one is not
ChangeOf(t, c) ==
    IF Len(c.segs) = 3 /\ c.segs[3] = "spec"
    THEN LET kind == t[Loc(c.segs[1], c.segs[2])].spec
         IN /\ c.status = "+" => kind # "none"
            /\ c.status = "-" => kind = "none"
            /\ c.islink = (kind = "link")
    ELSE ~c.islink
ScanChanges(t) ==
    {c \in {FileChange(s, p, k) : s \in {"+", "-"}, p \in ScanPaths, k \in BOOLEAN} :
        ChangeOf(t, c)}

InitScan ==
    /\ InitRepo
    /\ \E t \in ScanTrees, n \in 0..MaxDiff :
         \E d \in [1..n -> ScanChanges(t)] :
            call = [fn |-> "list_update", tree |-> t, diff |-> d,
                    done |-> FALSE, ret |-> <<>>]

\* list(self.list_update(mid)) in scan_abbs_tree
ListUpdateCall ==
    /\ call.fn = "list_update" /\ ~call.done
    /\ call' = [call EXCEPT !.done = TRUE, !.ret = list_update(call)]
    /\ UNCHANGED <<revs, ldir, db, dbd, rel, basherr, reld, basherrd, run, log, obs>>

NextScan == ListUpdateCall

SpecScan == InitScan /\ [][NextScan]_vars

\* the pairs touched by the file changes of the call: the first two segments
\* of every changed file that lies below a <secpath>/<directory>
Touched ==
    {Loc(call.diff[i].segs[1], call.diff[i].segs[2]) :
        i \in {j \in DOMAIN call.diff : Len(call.diff[j].segs) > 2}}
YieldsOf(l) == {i \in DOMAIN call.ret : call.ret[i].loc = l}

\* C25: every touched pair that is not ignored is yielded exactly once,
\* as present if the revision has a regular spec file there and as absent
\* otherwise.
C25_Classification ==
    (call.fn = "list_update" /\ call.done)
    => \A l \in Touched :
          (l.secpath \notin repo_ignore /\ Recognized(l.secpath))
          => /\ Cardinality(YieldsOf(l)) = 1
             /\ \A i \in YieldsOf(l) :
                   call.ret[i].change
                       = IF exists(call.tree, l, FALSE, TRUE) THEN "+" ELSE "-"

\* C26: list_update yields each (category-section, directory) pair at most
\* once, whatever the number, order and status of the file changes under it.
C26_YieldedOnce ==
    (call.fn = "list_update" /\ call.done)
    => \A i, j \in DOMAIN call.ret : call.ret[i].loc = call.ret[j].loc => i = j

\* C26 happens: two file changes of different status lie under one pair, and
\* the pair was yielded
C26_Witness ==
    /\ call.fn = "list_update" /\ call.done
    /\ \E i, j \in DOMAIN call.diff :
          /\ i < j
          /\ Len(call.diff[i].segs) > 2 /\ Len(call.diff[j].segs) > 2
          /\ call.diff[i].status # call.diff[j].status
          /\ SubSeq(call.diff[i].segs, 1, 2) = SubSeq(call.diff[j].segs, 1, 2)
          /\ YieldsOf(Loc(call.diff[i].segs[1], call.diff[i].segs[2])) # {}

\* C27: a changed file whose first segment is a reserved name, or does not
\* start with a recognized category, or which lies fewer than two
\* directories deep, never produces a scanner entry: every yielded pair has
\* a first segment that is not reserved and starts with a category, and
\* comes from a change at least two directories deep.
C27_IgnoredPaths ==
    (call.fn = "list_update" /\ call.done)
    => \A i \in DOMAIN call.ret :
          /\ call.ret[i].loc.secpath \notin repo_ignore
          /\ Recognized(call.ret[i].loc.secpath)
          /\ call.ret[i].loc \in Touched

\* a group of the local directory whose packages are recorded for this tree
\* and branch, none with a stored timestamp older than the directory
UnchangedGroup(l) ==
    /\ l \in t_localdirs
    /\ ldir[l].content.spec = "file"
    /\ DeclaredNames(ldir[l].content) # {}
    /\ \A name \in DeclaredNames(ldir[l].content) :
          /\ \E r \in db.packages : r.name = name /\ r.tree = LocTree
          /\ \E v \in db.package_versions : v.package = name /\ v.branch = LocalBranch
          /\ \A v \in db.package_versions :
                (v.package = name /\ v.branch = LocalBranch)
                => ldir[l].mtime <= v.commit_time

\* C28: a local scan neither deletes from the catalog nor reads again a
\* group that is recorded for this tree and branch, is still on disk, and
\* has no file newer than the stored timestamp.
C28_OnlyChangedGroups ==
    [][(Idle /\ obs'.last = "ldel")
        => \A l \in Locs :
              UnchangedGroup(l)
              => /\ \A i \in DOMAIN run'.groups : run'.groups[i] # l
                 /\ \A name \in DeclaredNames(ldir[l].content) :
                       RowsOf(db', name) = RowsOf(db, name)]_vars

\* the locations whose groups the local scan removes or reads again: those
\* of the names in t_pkgrm
LocalPurged(d, self) ==
    {a.loc : a \in {x \in t_lastdirs(d, self) :
                      \E y \in t_pkgrm(d, self) : y.name = x.name}}
DupLoc(x) == Loc(SecPathJoin(x.category, x.section), x.directory)

\* C29: the purge that accompanies the removal or the re-scan of a group
\* leaves every package_duplicate row of another location or of another
\* tree in place, in the revision-based scan and in the local scan.
C29_PurgeScoped ==
    [][/\ (run.pc = "rm" /\ obs'.last = "rm")
          => \A x \in db.package_duplicate :
                ~DupAtLoc(x, SrcTree, Head(run.groups).loc)
                => x \in db'.package_duplicate
       /\ (Idle /\ obs'.last = "ldel")
          => \A x \in db.package_duplicate :
                ~(x.tree = LocTree /\ DupLoc(x) \in LocalPurged(db, LocTree))
                => x \in db'.package_duplicate]_vars

\* ' '.join(toks)
RECURSIVE JoinTokens(_)
JoinTokens(toks) ==
    IF toks = <<>> THEN <<>>
    ELSE IF Len(toks) = 1 THEN Head(toks)
    ELSE Head(toks) \o <<" ">> \o JoinTokens(Tail(toks))

\* the variables of a defines file with the tokens that are not of the form
\* name[relop version] taken out of every dependency list
WithoutBadTokens(items) ==
    [i \in DOMAIN items |->
        IF items[i].k.b \in relvars
        THEN KV(items[i].k,
                JoinTokens(SelectSeq(Split(items[i].v), LAMBDA t : TokenForm(t))))
        ELSE items[i]]

\* one diagnostic line (key, token) per such token, key by key in file order
RECURSIVE BadTokenLines(_)
BadTokenLines(items) ==
    IF items = <<>> THEN <<>>
    ELSE (IF Head(items).k.b \in relvars
          THEN LET bad == SelectSeq(Split(Head(items).v), LAMBDA t : ~TokenForm(t))
               IN [i \in DOMAIN bad |-> <<Head(items).k.b, bad[i]>>]
          ELSE <<>>)
         \o BadTokenLines(Tail(items))

\* C30: every token that is not of the form name[relop version] adds one
\* line to the diagnostics of the file and is left out of the dependency
\* list, and every other token, key and field is parsed as if the bad
\* tokens were absent.
C30_BadTokensDropped ==
    (call.fn = "load_defines" /\ call.done)
    => /\ call.ret.relerrs = BadTokenLines(call.result)
       /\ [call.ret EXCEPT !.relerrs = <<>>]
            = [package(PackageGroup(SrcTree, "extra-a", "p"),
                       WithoutBadTokens(call.result), Null) EXCEPT !.relerrs = <<>>]

\* C31: every dependency tuple produced by load_defines has a relationship
\* kind of the fixed vocabulary, also for a key whose architecture suffix
\* holds a double underscore.
C31_RelationshipVocabulary ==
    (call.fn = "load_defines" /\ call.done)
    => \A i \in DOMAIN call.ret.dependencies :
          call.ret.dependencies[i].relationship \in relvars

(***************************************************************************)
(* read_package_info on the evaluated variables of a spec file and of the  *)
(* defines files below it                                                  *)
(***************************************************************************)
MaxVars == 2

BagKeys == {Key("VER"), KeyA("VER", "ARM64"), Key("PKGNAME"), Key("PKGSEC"),
            Key("PKGDEP"), Key("K1")}
BagValues(k) ==
    CASE k = Key("K1") -> {"1", "2"}
      [] k = Key("PKGDEP") -> {<<"f">>}
      [] OTHER -> {"1"}
\* the mappings read_bashvar returns: at most MaxVars variables, each once
BagResults(n) ==
    {r \in [1..n -> BagKeys] : \A i, j \in 1..n : r[i] = r[j] => i = j}

\* a Package that shares the bag and the overrides of its group
PackageShared(g, result, err) ==
    [group |-> [g EXCEPT !.spec = package(g, result, err).spec,
                         !.vermask_arch = package(g, result, err).vermask_arch],
     pkg |-> package(g, result, err)]
\* PackageGroup.package with the group as it is after the call: the Package
\* gets copies of the group's bag and overrides
PackageOf(g, result, err) == [group |-> g, pkg |-> package(g, result, err)]

InitBag ==
    /\ InitRepo
    /\ \E n \in 0..MaxVars, m \in 0..MaxVars, o \in 0..1 :
         \E ks \in BagResults(n), kd \in BagResults(m), ke \in BagResults(o) :
            \E vs \in [1..n -> {"1", "2"}], vd \in [1..m -> {"1", "2"}] :
               LET Val(k, v) == IF v \in BagValues(k) THEN v
                                ELSE CHOOSE x \in BagValues(k) : TRUE
                   File(keys, vals) ==
                       [i \in DOMAIN keys |-> KV(keys[i], Val(keys[i], vals[i]))]
                   second == IF o = 0 THEN <<>>
                             ELSE <<File(ke, [i \in 1..o |-> "1"])>>
               IN /\ \A i \in 1..n : vs[i] = "1" \/ "2" \in BagValues(ks[i])
                  /\ \A i \in 1..m : vd[i] = "1" \/ "2" \in BagValues(kd[i])
                  /\ call = [fn |-> "read_package_info", pc |-> "spec",
                             svars |-> File(ks, vs),
                             defines |-> <<File(kd, vd)>> \o second,
                             todo |-> <<File(kd, vd)>> \o second,
                             group |-> PackageGroup(SrcTree, "extra-a", "p"),
                             pkgs |-> <<>>]

\* read_package_info line 713: pkggroup.load_spec
LoadSpecCall ==
    /\ call.fn = "read_package_info" /\ call.pc = "spec"
    /\ call' = [call EXCEPT !.pc = "defines",
                            !.group = load_spec(@, call.svars, Null)]
    /\ UNCHANGED <<revs, ldir, db, dbd, rel, basherr, reld, basherrd, run, log, obs>>

\* read_package_info lines 714-722: one defines file
DerivePackage ==
    /\ call.fn = "read_package_info" /\ call.pc = "defines"
    /\ call.todo # <<>>
    /\ LET r == PackageOf(call.group, Head(call.todo), Null)
       IN call' = [call EXCEPT !.group = r.group,
                               !.pkgs = Append(@, r.pkg),
                               !.todo = Tail(@)]
    /\ UNCHANGED <<revs, ldir, db, dbd, rel, basherr, reld, basherrd, run, log, obs>>

NextBag == LoadSpecCall \/ DerivePackage

SpecBag == InitBag /\ [][NextBag]_vars

\* the reserved keys: the group-level and package-level fields with their
\* per-architecture variants, and the dependency lists
Reserved(k) ==
    \/ k.b \in {"VER", "REL", "PKGEPOCH"} \cup relvars
    \/ k.a = "" /\ k.b \in {"PKGNAME", "PKGSEC", "PKGDES"}
\* the value the two files give a key: the defines file's, else the spec's
Evaluated(k, file) == DictGet(file, k, DictGet(call.svars, k, Null))

\* C32: the bag of every Package built by load_spec followed by package
\* holds no reserved key, whichever file assigned it, and holds every
\* non-reserved key of the two files with its evaluated value.
C32_ReservedKeys ==
    call.fn = "read_package_info"
    => \A i \in DOMAIN call.pkgs :
          /\ \A j \in DOMAIN call.pkgs[i].spec : ~Reserved(call.pkgs[i].spec[j].k)
          /\ \A k \in BagKeys :
                (~Reserved(k) /\ (DictHas(call.svars, k) \/ DictHas(call.defines[i], k)))
                => /\ DictHas(call.pkgs[i].spec, k)
                   /\ DictGet(call.pkgs[i].spec, k, Null) = Evaluated(k, call.defines[i])

\* C33: eval_bashvar returns the grammar evaluator's mapping when the
\* grammar accepts the fragment, with nothing collected from the fallback,
\* and the fallback's mapping when the grammar rejects it; no
\* ParseException leaves eval_bashvar.
C33_EvaluatorRouting ==
    (call.fn = "eval_bashvar" /\ call.literal.done /\ call.both.done)
    => /\ call.both.result.exception = Null
       /\ call.literal.result.exception = Null
          => /\ call.both.result.variables = call.literal.result.variables
             /\ call.both.result.msgs = <<>>
       /\ (call.literal.result.exception # Null /\ call.ext.done)
          => /\ call.both.result.variables = call.ext.result.variables
             /\ call.both.result.msgs = call.ext.result.msgs

\* C33 happens: the grammar rejected a fragment and eval_bashvar returned
\* the variables the shell echoed
C33_Witness ==
    /\ call.fn = "eval_bashvar" /\ call.literal.done /\ call.both.done /\ call.ext.done
    /\ call.literal.result.exception # Null
    /\ call.both.result.variables # <<>>

\* C34: when the Present step of a revision has read a spec or defines file
\* that left a diagnostic (a shell-fallback failure or a malformed
\* dependency token), the package read from it is recorded and
\* package_basherr holds a row keyed (revision, file) with the diagnostic,
\* whatever the commit message is.
C34_DiagnosticsRecorded ==
    obs.last = "add"
    => \A i \in DOMAIN obs.read :
          LET pkg == obs.read[i]
              loc == Loc(pkg.secpath, pkg.directory)
          IN /\ (HasErr(pkg) \/ Truthy(pkg.err_spec))
                => \E r \in db.packages : r.name = pkg.name
             /\ HasErr(pkg)
                => \E x \in basherr : /\ x.rid = run.mid
                                      /\ x.filename = ErrFile(loc, i)
                                      /\ x.err = err_defines(pkg)
             /\ Truthy(pkg.err_spec)
                => \E x \in basherr : /\ x.rid = run.mid
                                      /\ x.filename = ErrFile(loc, 0)
                                      /\ x.err.bash = pkg.err_spec

(***************************************************************************)
(* LocalRepo.update_package applied to the Package of one defines file     *)
(***************************************************************************)
MaxToks == 2

\* dependency tokens: a bare name, two constraints on that name, another name
StoreTokens == {<<"f">>, <<"f", ">", "=", "1">>, <<"f", "=", "=", "1">>, <<"1">>}
StoreKeys == {Key("PKGDEP"), KeyA("PKGDEP", "ARM64"), Key("PKGRECOM")}

\* the catalog before the call: empty, or holding the rows of an earlier
\* version of the package
StoreBefore ==
    {EmptyDb,
     update_package(EmptyDb, SrcTree, MainBranch, <<MainBranch>>,
                    package(PackageGroup(SrcTree, "extra-a", "p"),
                            <<KV(Key("PKGNAME"), "baz"), KV(Key("PKGDEP"), <<"V">>)>>,
                            Null))}

InitStore ==
    /\ revs = <<>>
    /\ ldir = [l \in Locs |-> [content |-> Gone, mtime |-> 0]]
    /\ db \in StoreBefore /\ dbd = db
    /\ rel = {} /\ reld = {}
    /\ basherr = {} /\ basherrd = {}
    /\ run = NoRun
    /\ log = <<>>
    /\ obs = NoObs
    /\ \E k \in StoreKeys, n \in 0..MaxToks :
         \E toks \in [1..n -> StoreTokens] :
            call = [fn |-> "update_package", pc |-> "load",
                    result |-> <<KV(Key("PKGNAME"), "baz"), KV(k, JoinTokens(toks))>>,
                    pkg |-> Null]

\* read_package_info: the Package of the defines file
StoreLoad ==
    /\ call.fn = "update_package" /\ call.pc = "load"
    /\ call' = [call EXCEPT !.pc = "update",
                            !.pkg = package(PackageGroup(SrcTree, "extra-a", "p"),
                                            call.result, Null)]
    /\ UNCHANGED <<revs, ldir, db, dbd, rel, basherr, reld, basherrd, run, log, obs>>

\* update_package on the main branch
StoreUpdate ==
    /\ call.fn = "update_package" /\ call.pc = "update"
    /\ call' = [call EXCEPT !.pc = "done"]
    /\ db' = update_package(db, SrcTree, MainBranch, <<MainBranch>>, call.pkg)
    /\ UNCHANGED <<revs, ldir, dbd, rel, basherr, reld, basherrd, run, log, obs>>

NextStore == StoreLoad \/ StoreUpdate

SpecStore == InitStore /\ [][NextStore]_vars

\* C35: after update_package has written package P on the main branch, the
\* package_dependencies rows of P are exactly the tuples of P's parsed
\* dependency list, two constraints on one dependency included.
C35_DependencyRowsComplete ==
    (call.fn = "update_package" /\ call.pc = "done")
    => {x \in db.package_dependencies : x.package = call.pkg.name}
       = Range(call.pkg.dependencies)

\* C36: after every completed repo_update, every row of package_versions,
\* package_spec and package_dependencies names a package that has a row in
\* packages.
C36_ReferentialIntegrity ==
    obs.last = "branch"
    => LET names == {r.name : r \in db.packages}
       IN /\ \A x \in db.package_versions : x.package \in names
          /\ \A x \in db.package_spec : x.package \in names
          /\ \A x \in db.package_dependencies : x.package \in names

(***************************************************************************)
(* init_db: the trees and tree_branches tables of one catalog              *)
(***************************************************************************)
MaxRegs == 3
MaxPriority == 1

\* the repositories the command line can construct over one catalog
Repos ==
    {[kind |-> "local", name |-> n, priority |-> p, category |-> "base",
      url |-> Null, mainbranch |-> "_local", branches |-> <<"_local">>]
        : n \in {"a", "b"}, p \in 0..MaxPriority}
    \cup {[kind |-> "source", name |-> n, priority |-> p, category |-> "base",
           url |-> "u", mainbranch |-> "stable", branches |-> bs]
            : n \in {"a", "b"}, p \in 0..MaxPriority,
              bs \in {<<"stable">>, <<"stable", "testing">>}}

\* REPLACE INTO trees: tid is the primary key and name is unique
ReplaceTree(rows, r) ==
    {x \in rows : x.tid # r.tid /\ x.name # r.name} \cup {r}

\* REPLACE INTO tree_branches, in order: name is the primary key and
\* (tree, branch) is unique
RECURSIVE ReplaceBranches(_, _, _)
ReplaceBranches(rows, self, k) ==
    IF k > Len(self.branches) THEN rows
    ELSE LET r == [name |-> <<self.name, self.branches[k]>>, tree |-> self.name,
                   branch |-> self.branches[k],
                   priority |-> IF self.kind = "local" THEN 0 ELSE k - 1]
         IN ReplaceBranches(
              {x \in rows : x.name # r.name /\ ~(x.tree = r.tree /\ x.branch = r.branch)}
                \cup {r}, self, k + 1)

\* LocalRepo.init_db and SourceRepo.init_db on the catalog tables
init_db(tables, self) ==
    [trees |-> ReplaceTree(tables.trees,
                           [tid |-> self.priority, name |-> self.name,
                            category |-> self.category, url |-> self.url,
                            mainbranch |-> self.mainbranch]),
     tree_branches |-> ReplaceBranches(tables.tree_branches, self, 1)]

InitReg ==
    /\ InitRepo
    /\ call = [fn |-> "init_db", n |-> 0,
               tables |-> [trees |-> {}, tree_branches |-> {}],
               before |-> [trees |-> {}, tree_branches |-> {}],
               self |-> Null]

\* update() of one repository reaches init_db
InitDbCall ==
    /\ call.fn = "init_db" /\ call.n < MaxRegs
    /\ \E self \in Repos :
          call' = [call EXCEPT !.n = @ + 1, !.before = call.tables,
                               !.tables = init_db(call.tables, self),
                               !.self = self.name]
    /\ UNCHANGED <<revs, ldir, db, dbd, rel, basherr, reld, basherrd, run, log, obs>>

NextReg == InitDbCall

SpecReg == InitReg /\ [][NextReg]_vars

\* C37: init_db for a tree leaves the trees and tree_branches rows of every
\* other tree as they were, whatever the priorities of the trees are.
C37_OtherTreesKept ==
    (call.fn = "init_db" /\ call.n > 0)
    => /\ \A r \in call.before.trees : r.name # call.self => r \in call.tables.trees
       /\ \A r \in call.before.tree_branches :
             r.tree # call.self => r \in call.tables.tree_branches

\* one changed group of a revision reconciled on catalog and marks s
\* (the steps RmStep and AddStep)
ReplayGroup(s, mid, g) ==
    LET names == RecordedAt(s.db, SrcTree, g.loc)
        d1 == RemovePhase(s.db, SrcTree, g.loc, Rev(mid).brs)
        pkgs == IF g.change = "+"
                THEN read_package_info(SrcTree, Rev(mid).tree[g.loc], g.loc)
                ELSE <<>>
    IN [db |-> UpdatePackages(d1, SrcTree, MainBranch, branches_of_commit(mid), pkgs),
        rel |-> IF g.change = "+" THEN RelPresent(s.rel, mid, Rev(mid).msg, pkgs)
                ELSE RelAbsent(s.rel, mid, Rev(mid).msg, names)]

RECURSIVE ReplayGroups(_, _, _)
ReplayGroups(s, mid, groups) ==
    IF groups = <<>> THEN s
    ELSE ReplayGroups(ReplayGroup(s, mid, Head(groups)), mid, Tail(groups))

\* the outcomes of scan_abbs_tree(mid) on s (the steps ScanNext to SweepStep)
ReplayRev(s, mid) ==
    IF branches_of_commit(mid) = <<>> \/ \E x \in s.rel : x.rid = mid THEN {s}
    ELSE LET t == ReplayGroups(s, mid, list_update(Rev(mid)))
         IN {[db |-> DropSingleDuplicates(
                       Sweep(t.db, SrcTree, Rev(mid).tree, branches_of_commit(mid), order)),
              rel |-> t.rel] : order \in Orders(SweepLocs(t.db, SrcTree))}

RECURSIVE ReplayRevs(_, _)
ReplayRevs(S, todo) ==
    IF todo = <<>> THEN S
    ELSE ReplayRevs(UNION {ReplayRev(s, Head(todo)) : s \in S}, Tail(todo))

\* the catalogs a completed update of the present history can leave when it
\* starts on an empty catalog and empty marks
Replayed ==
    LET S == ReplayRevs({[db |-> EmptyDb, rel |-> {}]},
                        WorkList(last_update(EmptyDb, SrcTree), last_rid({})))
    IN UNION {{BranchUpdate(s.db, t) : t \in t_package_versions(s.db, s.rel)} : s \in S}

\* C38: a completed update with reset, on a catalog that earlier runs over
\* the history produced, leaves the packages, package_versions,
\* package_spec, package_dependencies and package_duplicate rows that a
\* replay of the history into an empty catalog leaves.
C38_ResetConverges ==
    (obs.last = "branch" /\ obs.start.reset /\ ~obs.start.empty) => db \in Replayed

\* a reset run over a history of two revisions has completed on a catalog
\* that held rows when it started, and the catalog holds a package
C38_Witness ==
    /\ obs.last = "branch" /\ obs.start.reset /\ ~obs.start.empty
    /\ Len(revs) >= 2
    /\ db.packages # {} /\ db.package_versions # {}
    /\ db \in Replayed

\* the group of the files being read, as load_spec leaves it
LoadedGroup == load_spec(PackageGroup(SrcTree, "extra-a", "p"), call.svars, Null)

\* C39: PackageGroup.package leaves the bag, the default version and release,
\* the per-architecture overrides and the spec diagnostic of the group as
\* they were, so the Package of each defines file is the one built from the
\* group as load_spec left it, whatever defines files were processed before.
C39_GroupNotMutated ==
    (call.fn = "read_package_info" /\ call.pc = "defines")
    => /\ call.group = LoadedGroup
       /\ \A i \in DOMAIN call.pkgs :
             call.pkgs[i] = package(LoadedGroup, call.defines[i], Null)

\* two defines files have been processed and the first one put a key into
\* the bag of its Package that the group does not hold
C39_Witness ==
    /\ call.fn = "read_package_info" /\ call.pc = "defines"
    /\ Len(call.pkgs) = 2
    /\ call.pkgs[1].spec # call.group.spec
    /\ call.group.spec # <<>>

====
